---- MODULE Spec2Model ----
(***************************************************************************)
(* Model of acheevo/template-engine: the content codec, the schema         *)
(* validator, the SDK entry point GenerateFromTemplate and the Generator   *)
(* with its templating pipeline.                                           *)
(*                                                                         *)
(* Go strings are modelled by TLA+ strings, one character per byte.  The   *)
(* characters "ï", "¿", "½" and "ÿ" stand for the bytes 0xEF, 0xBF, 0xBD   *)
(* and 0xFF, so that binary content and the UTF-8 replacement character    *)
(* U+FFFD (bytes EF BF BD) can be written down.                            *)
(***************************************************************************)
EXTENDS Integers, Sequences, FiniteSets, TLC

(***************************************************************************)
(* Bounds of the model.                                                    *)
(***************************************************************************)
MaxFrags == 2      \* fragments concatenated into one templated content
MaxFiles == 2      \* FileSpecs of a schema in the multi-file scenarios
MaxLines == 3      \* lines of a .env.example text handed to ParseEnvExample
MaxCalls == 3      \* RegisterTemplate / RegisterSchema calls on one Client

(***************************************************************************)
(* package strings                                                         *)
(***************************************************************************)
Min(S) == CHOOSE m \in S : \A n \in S : m <= n

At(s, i) == SubSeq(s, i, i)

From(s, i) == SubSeq(s, i, Len(s))

\* strings.Index, 1-based; 0 when sub does not occur in s.
Index(s, sub) ==
    LET cands == {i \in 1..(Len(s) - Len(sub) + 1) :
                     SubSeq(s, i, i + Len(sub) - 1) = sub}
    IN  IF cands = {} THEN 0 ELSE Min(cands)

Contains(s, sub) == Index(s, sub) > 0

HasPrefix(s, p) == Len(s) >= Len(p) /\ SubSeq(s, 1, Len(p)) = p

HasSuffix(s, p) == Len(s) >= Len(p) /\ SubSeq(s, Len(s) - Len(p) + 1, Len(s)) = p

RECURSIVE Interleave(_, _)
Interleave(s, new) ==
    IF s = "" THEN new ELSE new \o At(s, 1) \o Interleave(From(s, 2), new)

\* strings.ReplaceAll: leftmost non-overlapping occurrences of old, left to
\* right; an empty old matches before every character and at the end.
RECURSIVE ReplaceAll(_, _, _)
ReplaceAll(s, old, new) ==
    IF old = "" THEN Interleave(s, new)
    ELSE LET i == Index(s, old)
         IN  IF i = 0 THEN s
             ELSE SubSeq(s, 1, i - 1) \o new
                    \o ReplaceAll(From(s, i + Len(old)), old, new)

RECURSIVE Repeat(_, _)
Repeat(s, n) ==
    IF n = 0 THEN ""
    ELSE IF n % 2 = 0 THEN LET h == Repeat(s, n \div 2) IN h \o h
    ELSE s \o Repeat(s, n - 1)

LowerLetters == "abcdefghijklmnopqrstuvwxyz"
UpperLetters == "ABCDEFGHIJKLMNOPQRSTUVWXYZ"

LowerChar(c) ==
    LET i == Index(UpperLetters, c) IN IF i = 0 THEN c ELSE At(LowerLetters, i)

UpperChar(c) ==
    LET i == Index(LowerLetters, c) IN IF i = 0 THEN c ELSE At(UpperLetters, i)

RECURSIVE ToLower(_)
ToLower(s) == IF s = "" THEN "" ELSE LowerChar(At(s, 1)) \o ToLower(From(s, 2))

RECURSIVE ToUpper(_)
ToUpper(s) == IF s = "" THEN "" ELSE UpperChar(At(s, 1)) \o ToUpper(From(s, 2))

RECURSIVE TrimLeftSpace(_)
TrimLeftSpace(s) ==
    IF s # "" /\ At(s, 1) \in {" ", "\t", "\n", "\r"}
    THEN TrimLeftSpace(From(s, 2)) ELSE s

RECURSIVE TrimRightSpace(_)
TrimRightSpace(s) ==
    IF s # "" /\ At(s, Len(s)) \in {" ", "\t", "\n", "\r"}
    THEN TrimRightSpace(SubSeq(s, 1, Len(s) - 1)) ELSE s

TrimSpace(s) == TrimRightSpace(TrimLeftSpace(s))

(***************************************************************************)
(* internal/core: content hash.  SHA-256 is taken to be injective: the     *)
(* hex digest of c is the term sha256(c), which is never the empty string. *)
(***************************************************************************)
CalculateContentHash(content) == "sha256(" \o content \o ")"

(***************************************************************************)
(* compress/gzip and encoding/base64 are library code.  The model keeps    *)
(* their contract with a run-length code in their place: encoding is       *)
(* lossless, repetitive input shrinks and other input grows, the encoded   *)
(* text has no line breaks, decoding skips "\r" and "\n" (as base64's      *)
(* DecodeString does) and rejects text that is not an encoding.            *)
(***************************************************************************)
Digits == "0123456789"

RECURSIVE Itoa(_)
Itoa(n) ==
    IF n < 10 THEN At(Digits, n + 1)
    ELSE Itoa(n \div 10) \o At(Digits, (n % 10) + 1)

IsDigit(c) == Index(Digits, c) > 0

RECURSIVE Atoi(_)
Atoi(s) ==
    IF s = "" THEN 0
    ELSE 10 * Atoi(SubSeq(s, 1, Len(s) - 1)) + (Index(Digits, At(s, Len(s))) - 1)

\* length of the run of equal characters that starts s
RunLen(s) ==
    LET diff == {i \in 1..Len(s) : At(s, i) # At(s, 1)}
    IN  IF diff = {} THEN Len(s) ELSE Min(diff) - 1

RunChar(c) ==
    IF c = "\n" THEN "/n" ELSE IF c = "\r" THEN "/r" ELSE IF c = "/" THEN "//" ELSE c

\* One "<char><count>;" group per maximal run, left to right.  The text is
\* cut at the run boundary nearest its middle, which keeps the evaluation
\* shallow on long inputs; the result does not depend on the cut.
RECURSIVE EncodeRuns(_)
EncodeRuns(s) ==
    IF s = "" THEN ""
    ELSE IF RunLen(s) = Len(s) THEN RunChar(At(s, 1)) \o Itoa(Len(s)) \o ";"
    ELSE LET cuts == {i \in 1..(Len(s) - 1) : At(s, i) # At(s, i + 1)}
             dist(i) == IF 2 * i >= Len(s) THEN 2 * i - Len(s) ELSE Len(s) - 2 * i
             cut  == CHOOSE i \in cuts : \A j \in cuts : dist(i) <= dist(j) /\ (dist(i) = dist(j) => i <= j)
         IN  EncodeRuns(SubSeq(s, 1, cut)) \o EncodeRuns(From(s, cut + 1))

GzipMagic == "H4sI"

\* base64.StdEncoding.EncodeToString(gzip(content))
GzipBase64(content) == GzipMagic \o EncodeRuns(content)

\* Decoding returns [err |-> BOOLEAN, out |-> STRING].
\* one group "<char><count>;"
DecodeGroup(g) ==
    LET esc == At(g, 1) = "/"
        c   == IF ~esc THEN At(g, 1)
               ELSE IF At(g, 2) = "n" THEN "\n"
               ELSE IF At(g, 2) = "r" THEN "\r"
               ELSE At(g, 2)
        num == SubSeq(g, IF esc THEN 3 ELSE 2, Len(g) - 1)
    IN  IF (esc /\ At(g, 2) \notin {"n", "r", "/"})
           \/ num = ""
           \/ (\E i \in 1..Len(num) : ~IsDigit(At(num, i)))
           \/ At(num, 1) = "0"
        THEN [err |-> TRUE, out |-> ""]
        ELSE [err |-> FALSE, out |-> Repeat(c, Atoi(num))]

\* A group ends at a ";" that follows a digit.  As in EncodeRuns the text
\* is cut at the group end nearest its middle.
RECURSIVE DecodeRuns(_)
DecodeRuns(s) ==
    IF s = "" THEN [err |-> FALSE, out |-> ""]
    ELSE LET ends == {i \in 2..Len(s) : At(s, i) = ";" /\ IsDigit(At(s, i - 1))}
             cuts == ends \ {Len(s)}
             dist(i) == IF 2 * i >= Len(s) THEN 2 * i - Len(s) ELSE Len(s) - 2 * i
         IN  IF Len(s) \notin ends THEN [err |-> TRUE, out |-> ""]
             ELSE IF cuts = {} THEN DecodeGroup(s)
             ELSE LET cut   == CHOOSE i \in cuts :
                                  \A j \in cuts : dist(i) <= dist(j) /\ (dist(i) = dist(j) => i <= j)
                      left  == DecodeRuns(SubSeq(s, 1, cut))
                      right == DecodeRuns(From(s, cut + 1))
                  IN  IF left.err \/ right.err THEN [err |-> TRUE, out |-> ""]
                      ELSE [err |-> FALSE, out |-> left.out \o right.out]

\* gunzip(base64.StdEncoding.DecodeString(stored))
GunzipBase64(stored) ==
    LET s == ReplaceAll(ReplaceAll(stored, "\r", ""), "\n", "")
    IN  IF ~HasPrefix(s, GzipMagic) THEN [err |-> TRUE, out |-> ""]
        ELSE DecodeRuns(From(s, Len(GzipMagic) + 1))

(***************************************************************************)
(* internal/core/compression.go                                            *)
(***************************************************************************)
CompressionThreshold == 1024

\* CompressContent returns (stored content, wasCompressed); its error
\* results come from writes to an in-memory buffer, which do not fail.
CompressContentUnflagged(content) ==
    IF Len(content) < CompressionThreshold
    THEN [content |-> content, compressed |-> FALSE]
    ELSE [content |-> GzipBase64(content), compressed |-> FALSE]

CompressContentNotLonger(content) ==
    IF Len(content) < CompressionThreshold
    THEN [content |-> content, compressed |-> FALSE]
    ELSE LET compressed == GzipBase64(content)
         IN  IF Len(compressed) <= Len(content)
             THEN [content |-> compressed, compressed |-> TRUE]
             ELSE [content |-> content, compressed |-> FALSE]

CompressContent(content) ==
    IF Len(content) < CompressionThreshold
    THEN [content |-> content, compressed |-> FALSE]
    ELSE LET compressed == GzipBase64(content)
         IN  IF Len(compressed) < Len(content)
             THEN [content |-> compressed, compressed |-> TRUE]
             ELSE [content |-> content, compressed |-> FALSE]

\* DecompressContent returns (content, error).
DecompressContent(content, compressed) ==
    IF ~compressed THEN [err |-> FALSE, out |-> content]
    ELSE GunzipBase64(content)


(***************************************************************************)
(* internal/core/validation.go.  The schema is a record                    *)
(*   [Name, Type, Version, Variables, Files]                               *)
(* where Variables is [isNil, m] (m maps a variable name to                *)
(* [Type, Required, Default]) and Files is a sequence of FileSpecs         *)
(*   [Path, Template, Content, Size, Hash, Compressed, Mappings].          *)
(* An error is its message; NoError is Go's nil error.  A validator that   *)
(* ranges over a Go map returns the set of results that some iteration     *)
(* order produces.                                                         *)
(***************************************************************************)
NoError == ""

validateBasicFieldsTypeFirst(schema) ==
    IF schema.Type = "" THEN "schema type is required"
    ELSE IF schema.Name = "" THEN "schema name is required"
    ELSE IF schema.Version = "" THEN "schema version is required"
    ELSE NoError

validateBasicFields(schema) ==
    IF schema.Name = "" THEN "schema name is required"
    ELSE IF schema.Type = "" THEN "schema type is required"
    ELSE IF schema.Version = "" THEN "schema version is required"
    ELSE NoError

validateSchemaVariables(schema) ==
    IF schema.Variables.isNil THEN {"schema variables is required"}
    ELSE LET m   == schema.Variables.m
             bad == {name \in DOMAIN m : m[name].Type = ""}
         IN  IF bad = {} THEN {NoError}
             ELSE {"variable " \o name \o " must have a type" : name \in bad}

validateFileHashUncompressedOnly(file) ==
    IF file.Hash = "" \/ file.Compressed THEN NoError
    ELSE IF file.Hash # CalculateContentHash(file.Content)
         THEN "file " \o file.Path \o " hash mismatch: expected "
                \o file.Hash \o ", got " \o CalculateContentHash(file.Content)
         ELSE NoError

validateFileHash(file) ==
    IF file.Hash = "" THEN NoError
    ELSE LET d == DecompressContent(file.Content, file.Compressed)
         IN  IF file.Compressed /\ d.err
             THEN "file " \o file.Path \o " failed to decompress for validation"
             ELSE LET content        == IF file.Compressed THEN d.out ELSE file.Content
                      calculatedHash == CalculateContentHash(content)
                  IN  IF file.Hash # calculatedHash
                      THEN "file " \o file.Path \o " hash mismatch: expected "
                             \o file.Hash \o ", got " \o calculatedHash
                      ELSE NoError

\* index is the Go (0-based) index of the file
validateFileSpec(file, index) ==
    IF file.Path = "" THEN "file " \o Itoa(index) \o " must have a path"
    ELSE IF file.Content = "" THEN "file " \o file.Path \o " must have content"
    ELSE validateFileHash(file)

validateSchemaFilesRulewise(schema) ==
    LET files   == schema.Files
        unnamed == {i \in 1..Len(files) : files[i].Path = "" \/ files[i].Content = ""}
        stale   == {i \in 1..Len(files) : validateFileHash(files[i]) # NoError}
    IN  IF Len(files) = 0 THEN "schema must contain at least one file"
        ELSE IF unnamed # {} THEN validateFileSpec(files[Min(unnamed)], Min(unnamed) - 1)
        ELSE IF stale # {} THEN validateFileHash(files[Min(stale)])
        ELSE NoError

validateSchemaFiles(schema) ==
    IF Len(schema.Files) = 0 THEN "schema must contain at least one file"
    ELSE LET failing == {i \in 1..Len(schema.Files) :
                            validateFileSpec(schema.Files[i], i - 1) # NoError}
         IN  IF failing = {} THEN NoError
             ELSE validateFileSpec(schema.Files[Min(failing)], Min(failing) - 1)

ValidateSchema(schema) ==
    IF validateBasicFields(schema) # NoError THEN {validateBasicFields(schema)}
    ELSE IF validateSchemaVariables(schema) # {NoError}
         THEN validateSchemaVariables(schema)
    ELSE {validateSchemaFiles(schema)}

requiredVariableErrorAnyName(name, variable, variables) ==
    IF ~variable.Required THEN NoError
    ELSE IF name = "ProjectName"
         THEN IF variables.ProjectName = "" THEN "ProjectName is required" ELSE NoError
    ELSE IF name = "GitHubRepo"
         THEN IF variables.GitHubRepo = "" THEN "GitHubRepo is required" ELSE NoError
    ELSE IF name = "Author"
         THEN IF variables.Author = "" /\ variable.Default = ""
              THEN "author is required" ELSE NoError
    ELSE IF name = "Description"
         THEN IF variables.Description = "" /\ variable.Default = ""
              THEN "description is required" ELSE NoError
    ELSE IF variable.Default = "" THEN name \o " is required" ELSE NoError

\* the check of one declared variable inside ValidateVariables' loop
requiredVariableError(name, variable, variables) ==
    IF ~variable.Required THEN NoError
    ELSE IF name = "ProjectName"
         THEN IF variables.ProjectName = "" THEN "ProjectName is required" ELSE NoError
    ELSE IF name = "GitHubRepo"
         THEN IF variables.GitHubRepo = "" THEN "GitHubRepo is required" ELSE NoError
    ELSE IF name = "Author"
         THEN IF variables.Author = "" /\ variable.Default = ""
              THEN "author is required" ELSE NoError
    ELSE IF name = "Description"
         THEN IF variables.Description = "" /\ variable.Default = ""
              THEN "description is required" ELSE NoError
    ELSE NoError

ValidateVariables(schema, variables) ==
    LET m   == schema.Variables.m
        bad == {name \in DOMAIN m :
                   requiredVariableError(name, m[name], variables) # NoError}
    IN  IF bad = {} THEN {NoError}
        ELSE {requiredVariableError(name, m[name], variables) : name \in bad}

(***************************************************************************)
(* encoding/json as the schema passes through it: MarshalIndent followed   *)
(* by Unmarshal returns every string with each byte that is not part of a  *)
(* valid UTF-8 sequence replaced by U+FFFD, and keeps the rest of the      *)
(* schema (a nil map stays nil, an empty list stays empty).                *)
(***************************************************************************)
ReplacementChar == "ï¿½"

HighBytes == {"ï", "¿", "½", "ÿ"}
ContinuationBytes == {"¿", "½"}
Lead3Bytes == {"ï"}

RECURSIVE ToValidUTF8(_)
ToValidUTF8(s) ==
    LET high == {i \in 1..Len(s) : At(s, i) \in HighBytes}
    IN  IF high = {} THEN s
        ELSE LET i == Min(high)
             IN  IF At(s, i) \in Lead3Bytes /\ i + 2 <= Len(s)
                    /\ At(s, i + 1) \in ContinuationBytes
                    /\ At(s, i + 2) \in ContinuationBytes
                 THEN SubSeq(s, 1, i + 2) \o ToValidUTF8(From(s, i + 3))
                 ELSE SubSeq(s, 1, i - 1) \o ReplacementChar \o ToValidUTF8(From(s, i + 1))

JSONMapping(mp) == [Find |-> ToValidUTF8(mp.Find), Replace |-> ToValidUTF8(mp.Replace)]

\* Hash is a hex digest, which JSON carries unchanged; the term that
\* stands for the digest is kept whole.
JSONFileSpec(f) ==
    [Path       |-> ToValidUTF8(f.Path),
     Template   |-> f.Template,
     Content    |-> ToValidUTF8(f.Content),
     Size       |-> f.Size,
     Hash       |-> f.Hash,
     Compressed |-> f.Compressed,
     Mappings   |-> [i \in 1..Len(f.Mappings) |-> JSONMapping(f.Mappings[i])]]

JSONVariable(v) ==
    [Type |-> ToValidUTF8(v.Type), Required |-> v.Required, Default |-> ToValidUTF8(v.Default)]

\* json.Unmarshal(json.MarshalIndent(schema))
JSONRoundTrip(sch) ==
    [Name      |-> ToValidUTF8(sch.Name),
     Type      |-> ToValidUTF8(sch.Type),
     Version   |-> ToValidUTF8(sch.Version),
     Variables |-> [isNil |-> sch.Variables.isNil,
                    m     |-> [n \in DOMAIN sch.Variables.m |-> JSONVariable(sch.Variables.m[n])]],
     Files     |-> [i \in 1..Len(sch.Files) |-> JSONFileSpec(sch.Files[i])]]


(***************************************************************************)
(* internal/generate: the Generator's helper functions (templateFuncMap).  *)
(***************************************************************************)
kebabKeepCase(s) == ReplaceAll(s, " ", "-")

kebab(s) == ToLower(ReplaceAll(s, " ", "-"))

snake(s) == ToLower(ReplaceAll(s, " ", "_"))

title(s) == IF s = "" THEN s ELSE UpperChar(At(s, 1)) \o From(s, 2)

FuncNames == {"kebab", "snake", "upper", "lower", "title"}

CallFunc(name, s) ==
    CASE name = "kebab" -> kebab(s)
      [] name = "snake" -> snake(s)
      [] name = "upper" -> ToUpper(s)
      [] name = "lower" -> ToLower(s)
      [] name = "title" -> title(s)

FieldNames == {".ProjectName", ".GitHubRepo", ".Author", ".Description"}

Field(variables, name) ==
    CASE name = ".ProjectName" -> variables.ProjectName
      [] name = ".GitHubRepo"  -> variables.GitHubRepo
      [] name = ".Author"      -> variables.Author
      [] name = ".Description" -> variables.Description

(***************************************************************************)
(* text/template (library code) on the actions that reach it: an action    *)
(* runs from the leftmost "{{" to the next "}}" and is a field of the      *)
(* TemplateVariables, optionally piped through registered functions; the   *)
(* field's string is written without escaping.  A character that starts no *)
(* token, such as "{", fails Parse; any other action is reported as        *)
(* unsupported, which the pipeline must never let through.                 *)
(***************************************************************************)
LeftDelim  == "{{"
RightDelim == "}}"

\* the commands of a pipeline: the action text split at "|", each trimmed
RECURSIVE SplitPipe(_)
SplitPipe(a) ==
    LET i == Index(a, "|")
    IN  IF i = 0 THEN <<TrimSpace(a)>>
        ELSE <<TrimSpace(SubSeq(a, 1, i - 1))>> \o SplitPipe(From(a, i + 1))

RECURSIVE ApplyFuncs(_, _)
ApplyFuncs(cmds, s) ==
    IF cmds = <<>> THEN s ELSE ApplyFuncs(Tail(cmds), CallFunc(Head(cmds), s))

EvalAction(action, variables) ==
    LET cmds == SplitPipe(action)
    IN  IF Contains(action, "{") \/ Contains(action, "}")
        THEN [err |-> "failed to parse template", out |-> ""]
        ELSE IF Head(cmds) \in FieldNames
                /\ \A i \in 2..Len(cmds) : cmds[i] \in FuncNames
        THEN [err |-> NoError, out |-> ApplyFuncs(Tail(cmds), Field(variables, Head(cmds)))]
        ELSE [err |-> "unsupported action", out |-> ""]

\* template.New("file").Funcs(funcMap).Parse(text) followed by Execute
RECURSIVE Execute(_, _)
Execute(text, variables) ==
    LET i == Index(text, LeftDelim)
    IN  IF i = 0 THEN [err |-> NoError, out |-> text]
        ELSE LET rest == From(text, i + Len(LeftDelim))
                 j    == Index(rest, RightDelim)
             IN  IF j = 0 THEN [err |-> "failed to parse template", out |-> ""]
                 ELSE LET ev   == EvalAction(SubSeq(rest, 1, j - 1), variables)
                          tail == Execute(From(rest, j + Len(RightDelim)), variables)
                      IN  IF ev.err # NoError THEN ev
                          ELSE IF tail.err # NoError THEN tail
                          ELSE [err |-> NoError,
                                out |-> SubSeq(text, 1, i - 1) \o ev.out \o tail.out]

(***************************************************************************)
(* Generator.processTemplatedFile                                          *)
(***************************************************************************)
\* templateReplacements: substitution expression -> placeholder
templateReplacements ==
    {[find |-> "{{.ProjectName}}",         replace |-> "__PROJECT_NAME_PLACEHOLDER__"],
     [find |-> "{{.GitHubRepo}}",          replace |-> "__GITHUB_REPO_PLACEHOLDER__"],
     [find |-> "{{.Author}}",              replace |-> "__AUTHOR_PLACEHOLDER__"],
     [find |-> "{{.Description}}",         replace |-> "__DESCRIPTION_PLACEHOLDER__"],
     [find |-> "{{.ProjectName | kebab}}", replace |-> "__PROJECT_NAME_KEBAB_PLACEHOLDER__"],
     [find |-> "{{.ProjectName | snake}}", replace |-> "__PROJECT_NAME_SNAKE_PLACEHOLDER__"],
     [find |-> "{{.ProjectName | upper}}", replace |-> "__PROJECT_NAME_UPPER_PLACEHOLDER__"],
     [find |-> "{{.ProjectName | lower}}", replace |-> "__PROJECT_NAME_LOWER_PLACEHOLDER__"],
     [find |-> "{{.ProjectName | title}}", replace |-> "__PROJECT_NAME_TITLE_PLACEHOLDER__"]}

\* the same table read from placeholder to expression (the restore loop)
restoreReplacements == {[find |-> e.replace, replace |-> e.find] : e \in templateReplacements}

EscapedLeftBrace  == "__ESCAPED_LEFT_BRACE__"
EscapedRightBrace == "__ESCAPED_RIGHT_BRACE__"

ApplyEntry(content, e) == ReplaceAll(content, e.find, e.replace)

\* every content that some run of the loop over table can hold
RECURSIVE Touched(_, _, _)
Touched(table, contents, fuel) ==
    LET more == contents \cup {ApplyEntry(c, e) : c \in contents, e \in table}
    IN  IF more = contents \/ fuel = 0 THEN contents
        ELSE Touched(table, more, fuel - 1)

\* the entries that change the content in some run; the others are no-ops
\* wherever the iteration order puts them
Relevant(table, content) ==
    {e \in table :
        \E c \in Touched(table, {content}, Cardinality(table)) : Contains(c, e.find)}

RECURSIVE AnyOrder(_, _)
AnyOrder(entries, content) ==
    IF entries = {} THEN {content}
    ELSE UNION {AnyOrder(entries \ {e}, ApplyEntry(content, e)) : e \in entries}

\* for find, replace := range table { content = ReplaceAll(content, find, replace) }
\* Go leaves the iteration order of a map unspecified: the set of the
\* contents the loop can end with, over all orders.
RangeReplaceAll(table, content) == AnyOrder(Relevant(table, content), content)

\* for _, mapping := range fileSpec.Mappings { ... } (a slice: in order)
RECURSIVE ApplyMappings(_, _)
RECURSIVE ApplyMappingsReversed(_, _)
ApplyMappingsReversed(mappings, content) ==
    IF mappings = <<>> THEN content
    ELSE ReplaceAll(ApplyMappingsReversed(Tail(mappings), content),
                    Head(mappings).Find, Head(mappings).Replace)

ApplyMappings(mappings, content) ==
    IF mappings = <<>> THEN content
    ELSE ApplyMappings(Tail(mappings),
                       ReplaceAll(content, Head(mappings).Find, Head(mappings).Replace))

Escape(content) ==
    ReplaceAll(ReplaceAll(content, LeftDelim, EscapedLeftBrace),
               RightDelim, EscapedRightBrace)

Unescape(result) ==
    ReplaceAll(ReplaceAll(result, EscapedLeftBrace, LeftDelim),
               EscapedRightBrace, RightDelim)

\* The text handed to the template engine, for every iteration order.
TemplateTexts(mappings, content) ==
    UNION {RangeReplaceAll(restoreReplacements, Escape(protected)) :
              protected \in RangeReplaceAll(templateReplacements,
                                            ApplyMappings(mappings, content))}

\* The outcomes [err, out] of rendering fileSpec up to the write of the
\* destination file: out is the text passed to file.WriteString.
RenderTemplated(fileSpec, variables) ==
    LET d == DecompressContent(fileSpec.Content, fileSpec.Compressed)
    IN  IF d.err THEN {[err |-> "failed to decompress content", out |-> ""]}
        ELSE {LET ex == Execute(text, variables)
              IN  IF ex.err # NoError THEN ex
                  ELSE [err |-> NoError, out |-> Unescape(ex.out)] :
                 text \in TemplateTexts(fileSpec.Mappings, d.out)}

\* Generator.copyStaticFile up to the write of the destination file
RenderStatic(fileSpec) ==
    LET d == DecompressContent(fileSpec.Content, fileSpec.Compressed)
    IN  IF d.err THEN {[err |-> "failed to decompress content", out |-> ""]}
        ELSE {[err |-> NoError, out |-> d.out]}


(***************************************************************************)
(* path/filepath on slash-separated paths                                  *)
(***************************************************************************)
RECURSIVE Split(_, _)
Split(s, sep) ==
    LET i == Index(s, sep)
    IN  IF i = 0 THEN <<s>>
        ELSE <<SubSeq(s, 1, i - 1)>> \o Split(From(s, i + Len(sep)), sep)

RECURSIVE JoinWith(_, _)
JoinWith(elems, sep) ==
    IF elems = <<>> THEN ""
    ELSE IF Len(elems) = 1 THEN Head(elems)
    ELSE Head(elems) \o sep \o JoinWith(Tail(elems), sep)

\* the element stack of filepath.Clean after reading elems
RECURSIVE CleanElems(_, _, _)
CleanElems(elems, stack, rooted) ==
    IF elems = <<>> THEN stack
    ELSE LET e == Head(elems)
         IN  IF e = "" \/ e = "." THEN CleanElems(Tail(elems), stack, rooted)
             ELSE IF e = ".."
                  THEN IF stack # <<>> /\ stack[Len(stack)] # ".."
                       THEN CleanElems(Tail(elems), SubSeq(stack, 1, Len(stack) - 1), rooted)
                       ELSE IF rooted THEN CleanElems(Tail(elems), stack, rooted)
                       ELSE CleanElems(Tail(elems), Append(stack, e), rooted)
             ELSE CleanElems(Tail(elems), Append(stack, e), rooted)

Clean(path) ==
    LET rooted == HasPrefix(path, "/")
        out    == (IF rooted THEN "/" ELSE "")
                    \o JoinWith(CleanElems(Split(path, "/"), <<>>, rooted), "/")
    IN  IF out = "" THEN "." ELSE out

\* filepath.Join(a, b)
Join(a, b) ==
    IF a = "" /\ b = "" THEN ""
    ELSE IF a = "" THEN Clean(b)
    ELSE IF b = "" THEN Clean(a)
    ELSE Clean(a \o "/" \o b)

\* filepath.Dir
Dir(path) ==
    LET slashes == {i \in 1..Len(path) : At(path, i) = "/"}
    IN  IF slashes = {} THEN "."
        ELSE Clean(SubSeq(path, 1, CHOOSE i \in slashes : \A j \in slashes : j <= i))

\* the directories os.MkdirAll(dir) makes sure exist: dir and its parents
RECURSIVE MkdirAllDirs(_)
MkdirAllDirs(dir) ==
    IF dir = "." \/ dir = "/" \/ dir = ".." \/ Dir(dir) = dir THEN {dir}
    ELSE {dir} \cup MkdirAllDirs(Dir(dir))


(***************************************************************************)
(* State.                                                                  *)
(***************************************************************************)
VARIABLES
    pc,          \* position of the generation call: "Start", "Rejected" (the
                 \* SDK returned before a Generator existed), and the
                 \* Generator's "Created", "Validated", "Writing", "Done", "Failed"
    memSchema,   \* the schema the caller holds (extracted, or read from a file)
    args,        \* the caller's ProjectName, GitHubRepo, OutputDir
    schema,      \* Generator.schema
    variables,   \* Generator.variables (core.TemplateVariables)
    outputDir,   \* Generator.outputDir
    disk,        \* output file system: [dirs, files], files maps path to content
    next,        \* 1-based index of the FileSpec that Generate processes next
    err,         \* the error the call returned, NoError while there is none
    call         \* a call of a pure function of internal/core: inputs and result

vars == <<pc, memSchema, args, schema, variables, outputDir, disk, next, err, call>>

NoSchema == [Name |-> "", Type |-> "", Version |-> "",
             Variables |-> [isNil |-> TRUE, m |-> <<>>], Files |-> <<>>]

NoVariables == [ProjectName |-> "", GitHubRepo |-> "", Author |-> "", Description |-> ""]

EmptyDisk == [dirs |-> {}, files |-> <<>>]

NoCall == [fn |-> "none"]

GeneratorIdle ==
    /\ pc = "Idle"
    /\ memSchema = NoSchema
    /\ args = [ProjectName |-> "", GitHubRepo |-> "", OutputDir |-> "",
               Author |-> "", Description |-> ""]
    /\ schema = NoSchema
    /\ variables = NoVariables
    /\ outputDir = ""
    /\ disk = EmptyDisk
    /\ next = 1
    /\ err = NoError

generatorVars == <<pc, memSchema, args, schema, variables, outputDir, disk, next, err>>

(***************************************************************************)
(* The FileSpec that Extract builds for one file of the source tree        *)
(* (the body of the walk function of every template type).                 *)
(***************************************************************************)
ExtractFile(relPath, content, isTemplate, mappings) ==
    LET c == CompressContent(content)
    IN  [Path       |-> relPath,
         Template   |-> isTemplate,
         Content    |-> c.content,
         Size       |-> Len(content),
         Hash       |-> CalculateContentHash(content),
         Compressed |-> c.compressed,
         Mappings   |-> IF isTemplate THEN mappings ELSE <<>>]

\* a FileSpec written by hand into a schema file, as the tests do: no hash
PlainFile(path, content, isTemplate, mappings) ==
    [Path |-> path, Template |-> isTemplate, Content |-> content,
     Size |-> Len(content), Hash |-> "", Compressed |-> FALSE, Mappings |-> mappings]

(***************************************************************************)
(* os: writing the destination file                                        *)
(***************************************************************************)
WriteFile(files, path, content) ==
    [p \in (DOMAIN files) \cup {path} |-> IF p = path THEN content ELSE files[p]]


(***************************************************************************)
(* sdk/client.go                                                           *)
(***************************************************************************)
\* Client.ValidateVariables
ClientValidateVariables(v) ==
    IF v.ProjectName = "" THEN "project name is required"
    ELSE IF v.GitHubRepo = "" THEN "github repo is required"
    ELSE IF v.OutputDir = "" THEN "output directory is required"
    ELSE NoError

\* The Generator that NewGenerator returns for a schema file holding the
\* JSON text of sch.
NewGeneratorState(sch, dir, projectName, githubRepo) ==
    /\ schema' = JSONRoundTrip(sch)
    /\ variables' = [ProjectName |-> projectName,
                     GitHubRepo  |-> githubRepo,
                     Author      |-> "Developer",
                     Description |-> "A " \o projectName \o " application"]
    /\ outputDir' = dir
    /\ pc' = "Created"
    /\ err' = NoError

Reject(message) ==
    /\ pc' = "Rejected"
    /\ err' = message
    /\ UNCHANGED <<schema, variables, outputDir>>

\* Client.GenerateFromTemplate up to the call of generator.Generate; the
\* temporary schema file may fail to be created or written.
GenerateFromTemplate ==
    /\ pc = "Start"
    /\ \E e \in ValidateSchema(memSchema), tempFileOK \in BOOLEAN :
          IF ClientValidateVariables(args) # NoError
          THEN Reject(ClientValidateVariables(args))
          ELSE IF e # NoError THEN Reject("invalid template schema: " \o e)
          ELSE IF ~tempFileOK THEN Reject("failed to create temporary file")
          ELSE NewGeneratorState(memSchema, args.OutputDir, args.ProjectName, args.GitHubRepo)
    /\ UNCHANGED <<memSchema, args, disk, next, call>>

\* NewGenerator called on a schema file that holds the JSON text of
\* memSchema (the command line's generate, or a direct use of the package).
NewGenerator ==
    /\ pc = "Start"
    /\ NewGeneratorState(memSchema, args.OutputDir, args.ProjectName, args.GitHubRepo)
    /\ UNCHANGED <<memSchema, args, disk, next, call>>

(***************************************************************************)
(* Generator.Generate, one action per stretch between its effects on the   *)
(* file system.                                                            *)
(***************************************************************************)
Fail(message) ==
    /\ pc' = "Failed"
    /\ err' = message

\* the two validations that open Generate
GenerateValidateAfterMkdir ==
    /\ pc = "Created"
    /\ disk' = [disk EXCEPT !.dirs = @ \cup MkdirAllDirs(Clean(outputDir))]
    /\ \E e \in ValidateSchema(schema), v \in ValidateVariables(schema, variables) :
          IF e # NoError THEN Fail("invalid schema: " \o e)
          ELSE IF v # NoError THEN Fail("invalid variables: " \o v)
          ELSE pc' = "Validated" /\ err' = NoError
    /\ UNCHANGED <<memSchema, args, schema, variables, outputDir, next, call>>

GenerateValidate ==
    /\ pc = "Created"
    /\ \E e \in ValidateSchema(schema), v \in ValidateVariables(schema, variables) :
          IF e # NoError THEN Fail("invalid schema: " \o e)
          ELSE IF v # NoError THEN Fail("invalid variables: " \o v)
          ELSE pc' = "Validated" /\ err' = NoError
    /\ UNCHANGED <<memSchema, args, schema, variables, outputDir, disk, next, call>>

\* os.MkdirAll(path, 0o755) on the file system d: an existing directory is
\* left as it is and is no error; the empty path, and a path that exists as
\* a file, are errors.
MkdirAll(d, path) ==
    IF path = "" THEN [err |-> "mkdir : no such file or directory", disk |-> d]
    ELSE IF Clean(path) \in DOMAIN d.files
    THEN [err |-> "mkdir " \o path \o ": not a directory", disk |-> d]
    ELSE [err  |-> NoError,
          disk |-> [d EXCEPT !.dirs = @ \cup MkdirAllDirs(Clean(path))]]

\* the step of Generate that creates the output directory; the system may
\* refuse it (permissions, a read-only volume)
GenerateMkdirAll ==
    /\ pc = "Validated"
    /\ \E ok \in BOOLEAN :
          LET made == MkdirAll(disk, outputDir)
          IN  IF ~ok
              THEN Fail("failed to create output directory: permission denied") /\ disk' = disk
              ELSE IF made.err # NoError
              THEN Fail("failed to create output directory: " \o made.err) /\ disk' = disk
              ELSE /\ disk' = made.disk
                   /\ pc' = "Writing"
                   /\ err' = NoError
    /\ UNCHANGED <<memSchema, args, schema, variables, outputDir, next, call>>

\* what processTemplatedFile or copyStaticFile computes before os.Create
RenderAlwaysTemplated(fileSpec, vs) ==
    RenderTemplated(fileSpec, vs)

Render(fileSpec, vs) ==
    IF fileSpec.Template THEN RenderTemplated(fileSpec, vs) ELSE RenderStatic(fileSpec)

ProcessFileKeepGoing ==
    /\ pc = "Writing"
    /\ next <= Len(schema.Files)
    /\ LET fileSpec == schema.Files[next]
           destPath == Join(outputDir, fileSpec.Path)
           wrap(m)  == "failed to process file " \o fileSpec.Path \o ": " \o m
           made     == [disk EXCEPT !.dirs = @ \cup MkdirAllDirs(Dir(destPath))]
           last     == next = Len(schema.Files)
       IN  \E r \in Render(fileSpec, variables) :
              /\ next' = next + 1
              /\ IF r.err # NoError
                 THEN /\ disk' = made
                      /\ err' = IF err = NoError THEN wrap(r.err) ELSE err
                      /\ pc' = IF last THEN "Failed" ELSE "Writing"
                 ELSE /\ disk' = [made EXCEPT !.files = WriteFile(@, destPath, r.out)]
                      /\ err' = err
                      /\ pc' = IF ~last THEN "Writing"
                               ELSE IF err = NoError THEN "Done" ELSE "Failed"
    /\ UNCHANGED <<memSchema, args, schema, variables, outputDir, call>>

\* One iteration of the loop of Generate: processFile on the next FileSpec.
\* io names the system call that fails, if any.
ProcessFile ==
    /\ pc = "Writing"
    /\ next <= Len(schema.Files)
    /\ LET fileSpec == schema.Files[next]
           destPath == Join(outputDir, fileSpec.Path)
           wrap(m)  == "failed to process file " \o fileSpec.Path \o ": " \o m
       IN  \E io \in {"ok", "MkdirAll", "Create", "WriteString"}, r \in Render(fileSpec, variables) :
              IF io = "MkdirAll"
              THEN Fail(wrap("mkdir failed")) /\ UNCHANGED <<disk, next>>
              ELSE LET made == [disk EXCEPT !.dirs = @ \cup MkdirAllDirs(Dir(destPath))]
                   IN  IF r.err # NoError
                       THEN Fail(wrap(r.err)) /\ disk' = made /\ next' = next
                       ELSE IF io = "Create"
                       THEN Fail(wrap("create failed")) /\ disk' = made /\ next' = next
                       ELSE IF io = "WriteString"
                       THEN /\ Fail(wrap("failed to write file"))
                            /\ disk' = [made EXCEPT !.files = WriteFile(@, destPath, "")]
                            /\ next' = next
                       ELSE /\ disk' = [made EXCEPT !.files = WriteFile(@, destPath, r.out)]
                            /\ next' = next + 1
                            /\ pc' = IF next = Len(schema.Files) THEN "Done" ELSE "Writing"
                            /\ err' = NoError
    /\ UNCHANGED <<memSchema, args, schema, variables, outputDir, call>>

\* Generate called once more after it returned nil, with the same schema,
\* variables and output directory; call keeps the tree the first run left.
GenerateAgain ==
    /\ pc = "Done"
    /\ call = NoCall
    /\ call' = [fn |-> "Generate", run |-> 2, first |-> disk]
    /\ pc' = "Created"
    /\ next' = 1
    /\ err' = NoError
    /\ UNCHANGED <<memSchema, args, schema, variables, outputDir, disk>>


(***************************************************************************)
(* The inputs of the generation scenarios.                                 *)
(***************************************************************************)
\* pieces of file content: substitution expressions, foreign template
\* syntax, lone braces, plain text, and text that looks like the pipeline's
\* own tokens
Fragments ==
    {"{{.ProjectName}}", "{{.GitHubRepo}}", "{{.ProjectName | kebab}}", "{{.Author}}",
     "{{ .Values.image }}", "{{", "}}", "{", "}", "# ", " v1\n",
     "__PROJECT_NAME_PLACEHOLDER__", "__AUTHOR_PLACEHOLDER", "__DESCRIPTION_PLACEHOLDER__",
     "__ESCAPED_LEFT_BRACE__"}

RECURSIVE Concats(_)
Concats(n) ==
    IF n = 0 THEN {""}
    ELSE LET shorter == Concats(n - 1)
         IN  shorter \cup {c \o f : c \in shorter, f \in Fragments}

ReadmeContent == "# {{.ProjectName}}\n\nRepository: {{.GitHubRepo}}"

PackageContent == "{\"name\": \"{{.ProjectName}}\", \"repository\": \"{{.GitHubRepo}}\"}"

\* a file that names the project through the case helpers
HelpersContent == "{{.ProjectName | kebab}}/{{.ProjectName | snake}}"

\* contents put together from the fragments
FragmentContents == Concats(MaxFrags) \ {""}

TemplatedContents == {ReadmeContent, PackageContent, HelpersContent, "{{.Author}}"}

GoModMapping == [Find |-> "module old/path", Replace |-> "module github.com/{{.GitHubRepo}}"]

MappingLists ==
    {<<GoModMapping>>,
     <<[Find |-> "old/path", Replace |-> "mid"], [Find |-> "module mid", Replace |-> "{{.Author}}"]>>,
     <<[Find |-> "module mid", Replace |-> "{{.Author}}"], [Find |-> "old/path", Replace |-> "mid"]>>,
     <<[Find |-> "go 1.23", Replace |-> "{{ go }}"], [Find |-> "{{", Replace |-> "[["]>>}

MappedContents ==
    {"module old/path", "module old/path\n\ngo 1.23\n", "// module mid\nmodule old/path",
     "{{.GitHubRepo}} {{ range }} old/path"}

StdVariables ==
    [isNil |-> FALSE,
     m |-> [n \in {"ProjectName", "GitHubRepo"} |->
               [Type |-> "string", Required |-> TRUE, Default |-> ""]]]

Header(name, vs, files) ==
    [Name |-> name, Type |-> "frontend", Version |-> "1.0.0", Variables |-> vs, Files |-> files]

FragmentSchemas ==
    {Header("test-template", StdVariables, <<PlainFile("README.md", c, TRUE, <<>>)>>) :
        c \in FragmentContents}

TemplatingSchemas ==
    {Header("test-template", StdVariables, <<PlainFile("README.md", c, TRUE, <<>>)>>) :
        c \in TemplatedContents}
    \cup
    {Header("test-template", StdVariables, <<PlainFile("go.mod", c, TRUE, ms)>>) :
        c \in MappedContents, ms \in MappingLists}

\* sdk.Variables of a caller that leaves Author and Description empty
Caller(projectName, githubRepo, dir) ==
    [ProjectName |-> projectName, GitHubRepo |-> githubRepo, OutputDir |-> dir,
     Author |-> "", Description |-> ""]

TemplatingArgs ==
    {Caller("test-project", "user/test-repo", "out"),
     Caller("My Cool App", "acme/widget", "out"),
     [Caller("New Project", "user/new-project", "out")
         EXCEPT !.Author = "John Doe", !.Description = "A side project"]}

LongText == Repeat("a", 1000) \o "{{.Author}}" \o Repeat("b", 100)

\* the FileSpecs of the multi-file scenarios
TreeFiles ==
    {ExtractFile("README.md", ReadmeContent, TRUE, <<>>),
     ExtractFile("logo.png", "ÿPNGÿ", FALSE, <<>>),
     ExtractFile("docs/big.txt", LongText, FALSE, <<>>),
     ExtractFile("src/big.ts", LongText, TRUE, <<>>),
     PlainFile("LICENSE", "(c) {{.Author}} {{ x }} module old/path", FALSE, <<GoModMapping>>),
     PlainFile("", "x", FALSE, <<>>),
     [ExtractFile("README.md", ReadmeContent, TRUE, <<>>) EXCEPT !.Content = "# edited"],
     [PlainFile("docs/bad.gz", "not-gzip", FALSE, <<>>) EXCEPT !.Compressed = TRUE]}

RECURSIVE SeqsUpTo(_, _)
SeqsUpTo(S, n) ==
    IF n = 0 THEN {<<>>}
    ELSE LET shorter == SeqsUpTo(S, n - 1)
         IN  shorter \cup {Append(q, x) : q \in shorter, x \in S}

TreeSchemas ==
    {Header(name, vs, files) :
        name \in {"frontend-react-template"},
        vs \in {StdVariables},
        files \in SeqsUpTo(TreeFiles, MaxFiles)}
    \cup
    {Header(name, vs, <<ExtractFile("README.md", ReadmeContent, TRUE, <<>>)>>) :
        name \in {"", "frontend-react-template"},
        vs \in {StdVariables, [isNil |-> TRUE, m |-> <<>>]}}

TreeArgs ==
    {Caller("Acme", "acme/site", "out"),
     Caller("", "acme/site", "out"),
     Caller("Acme", "acme/site", "")}

\* schemas whose FileSpec paths climb out of the directory they are joined to
TraversalSchemas ==
    {Header("frontend-react-template", StdVariables, files) :
        files \in {<<PlainFile("../other/evil.sh", "#!/bin/sh", FALSE, <<>>)>>,
                   <<ExtractFile("README.md", ReadmeContent, TRUE, <<>>),
                     PlainFile("docs/../../../.profile", "export X={{.ProjectName}}", TRUE, <<>>)>>,
                   <<PlainFile("/etc/motd", "hello", FALSE, <<>>),
                     PlainFile("a/../b.txt", "b", FALSE, <<>>)>>}}

Init ==
    /\ pc = "Start"
    /\ \/ memSchema \in TemplatingSchemas /\ args \in TemplatingArgs
       \/ memSchema \in FragmentSchemas /\ args = Caller("My Cool App", "acme/widget", "out")
       \/ memSchema \in TreeSchemas /\ args \in TreeArgs
       \/ memSchema \in TraversalSchemas /\ args = Caller("Acme", "acme/site", "out")
    /\ schema = NoSchema
    /\ variables = NoVariables
    /\ outputDir = ""
    /\ disk = EmptyDisk
    /\ next = 1
    /\ err = NoError
    /\ call = NoCall

Next ==
    \/ GenerateFromTemplate
    \/ NewGenerator
    \/ GenerateValidate
    \/ GenerateMkdirAll
    \/ ProcessFile
    \/ GenerateAgain

Spec == Init /\ [][Next]_vars


(***************************************************************************)
(* The content codec called on its own: CompressContent, then              *)
(* DecompressContent and CalculateContentHash on what it returned.         *)
(***************************************************************************)
\* lengths around CompressionThreshold, texts that the encoding shrinks,
\* texts that it does not, and texts whose encoding is exactly as long as
\* the text or one byte shorter
SingleRuns == Repeat("bc", 169) \o "b"

CodecContents ==
    Concats(1)
    \cup {ReadmeContent, PackageContent, "ÿPNGÿ", LongText}
    \cup {Repeat(c, n) : c \in {"a", "\n", "/", "7", ";"},
                         n \in {CompressionThreshold - 1, CompressionThreshold,
                                CompressionThreshold + 1}}
    \cup {Repeat("ab", 512), Repeat("a", 500) \o "\r\n" \o Repeat("/;", 300),
          Repeat("a", 687) \o SingleRuns, Repeat("a", 688) \o SingleRuns}

InitCodec ==
    /\ GeneratorIdle
    /\ call \in {[fn |-> "codec", step |-> "input", content |-> c, stored |-> "",
                  compressed |-> FALSE, decoded |-> [err |-> FALSE, out |-> ""],
                  hash |-> ""] : c \in CodecContents}

CallCompressContent ==
    /\ call.fn = "codec" /\ call.step = "input"
    /\ LET r == CompressContent(call.content)
       IN  call' = [call EXCEPT !.step = "stored", !.stored = r.content,
                                !.compressed = r.compressed]
    /\ UNCHANGED generatorVars

CallDecompressContent ==
    /\ call.fn = "codec" /\ call.step = "stored"
    /\ call' = [call EXCEPT !.step = "decoded",
                            !.decoded = DecompressContent(call.stored, call.compressed)]
    /\ UNCHANGED generatorVars

CallCalculateContentHash ==
    /\ call.fn = "codec" /\ call.step = "decoded"
    /\ call' = [call EXCEPT !.step = "hashed", !.hash = CalculateContentHash(call.decoded.out)]
    /\ UNCHANGED generatorVars

NextCodec == CallCompressContent \/ CallDecompressContent \/ CallCalculateContentHash

SpecCodec == InitCodec /\ [][NextCodec]_vars

(***************************************************************************)
(* The validators called on their own.  A stored schema that validates may *)
(* first have the content of one FileSpec edited (its hash is kept).       *)
(***************************************************************************)
ValidFile == ExtractFile("README.md", ReadmeContent, TRUE, <<>>)

\* the FileSpecs of the schemas handed to ValidateSchema
CheckedFiles ==
    {ValidFile,
     PlainFile("package.json", PackageContent, TRUE, <<>>),
     ExtractFile("docs/big.txt", LongText, FALSE, <<>>),
     [ValidFile EXCEPT !.Path = ""],
     [ValidFile EXCEPT !.Path = "empty.txt", !.Content = ""],
     [ValidFile EXCEPT !.Path = "stale.md", !.Hash = CalculateContentHash("# old")],
     [ExtractFile("docs/bad.gz", LongText, FALSE, <<>>) EXCEPT !.Content = "not-gzip"]}

UntypedVariables ==
    [isNil |-> FALSE,
     m |-> [n \in {"ProjectName", "Port"} |-> [Type |-> "", Required |-> FALSE, Default |-> ""]]]

CheckedSchemas ==
    {[Name |-> name, Type |-> type, Version |-> version, Variables |-> vs, Files |-> files] :
        name \in {"", "test-template"},
        type \in {"", "frontend"},
        version \in {"", "1.0.0"},
        vs \in {StdVariables, UntypedVariables, [isNil |-> TRUE, m |-> <<>>]},
        files \in SeqsUpTo(CheckedFiles, MaxFiles)}

\* an edit of stored content that leaves the line structure of base64 text
\* in doubt: a line break after the first characters
WithLineBreak(content) ==
    IF Len(content) < 2 THEN content \o "\n"
    ELSE SubSeq(content, 1, 2) \o "\n" \o From(content, 3)

Edits(content) ==
    {"", "# edited", "not-gzip", GzipBase64(Repeat("b", 1100)), WithLineBreak(content)}
        \ {content}

WellKnown == {"ProjectName", "GitHubRepo", "Author", "Description"}

\* a variable of the template's own, as templates declare them
CustomNames == {"Port"}

\* declarations of the variables: absent, optional, required, each with or
\* without a default
Declarations ==
    {[Type |-> "string", Required |-> r, Default |-> d] :
        r \in BOOLEAN, d \in {"", "fallback"}}

DeclaredVariables ==
    UNION {[names -> Declarations] : names \in SUBSET (WellKnown \cup CustomNames)}

Bindings ==
    [ProjectName : {"", "Acme"}, GitHubRepo : {"", "acme/site"},
     Author : {"", "Developer"}, Description : {"", "A site"}]

InitValidate ==
    /\ GeneratorIdle
    /\ \/ call \in {[fn |-> "ValidateSchema", schema |-> sch, edited |-> 0,
                     before |-> "", done |-> FALSE, out |-> NoError] :
                       sch \in CheckedSchemas}
       \/ call \in {[fn |-> "ValidateVariables",
                     schema |-> Header("test-template", [isNil |-> FALSE, m |-> m], <<ValidFile>>),
                     variables |-> b, done |-> FALSE, out |-> NoError] :
                       m \in DeclaredVariables, b \in Bindings}

\* the stored content of FileSpec i of a valid schema is replaced, its
\* hash is left as it was
EditContent ==
    /\ call.fn = "ValidateSchema" /\ ~call.done /\ call.edited = 0
    /\ ValidateSchema(call.schema) = {NoError}
    /\ \E i \in 1..Len(call.schema.Files) :
          /\ call.schema.Files[i].Hash # ""
          /\ \E c \in Edits(call.schema.Files[i].Content) :
                call' = [call EXCEPT !.schema.Files[i].Content = c,
                                     !.edited = i,
                                     !.before = call.schema.Files[i].Content]
    /\ UNCHANGED generatorVars

CallValidateSchema ==
    /\ call.fn = "ValidateSchema" /\ ~call.done
    /\ \E e \in ValidateSchema(call.schema) :
          call' = [call EXCEPT !.done = TRUE, !.out = e]
    /\ UNCHANGED generatorVars

CallValidateVariables ==
    /\ call.fn = "ValidateVariables" /\ ~call.done
    /\ \E e \in ValidateVariables(call.schema, call.variables) :
          call' = [call EXCEPT !.done = TRUE, !.out = e]
    /\ UNCHANGED generatorVars

NextValidate == EditContent \/ CallValidateSchema \/ CallValidateVariables

SpecValidate == InitValidate /\ [][NextValidate]_vars


(***************************************************************************)
(* internal/templates: the three template types.  A template type is named *)
(* by its Name(): "frontend", "go-api" or "fullstack".                     *)
(***************************************************************************)
TemplateTypes == {"frontend", "go-api", "fullstack"}

\* filepath.Base
Base(path) ==
    LET elems == SelectSeq(Split(path, "/"), LAMBDA e : e # "")
    IN  IF path = "" THEN "."
        ELSE IF elems = <<>> THEN "/"
        ELSE elems[Len(elems)]

shouldSkipCommon(path, skipDirs) ==
    LET baseName == Base(path)
    IN  IF Contains(path, ".github") THEN FALSE
        ELSE IF Contains(path, ".git") /\ ~Contains(path, ".github") THEN TRUE
        ELSE IF HasPrefix(baseName, ".") /\ baseName # ".github" /\ ~Contains(path, ".github")
             THEN TRUE
        ELSE IF baseName \in skipDirs THEN TRUE
        ELSE HasSuffix(baseName, ".log")

FrontendShouldSkip(path) ==
    shouldSkipCommon(path, {"node_modules", "dist", "build", "coverage"})

GoAPIShouldSkip(path) ==
    \E pattern \in {".git", ".DS_Store", "vendor", "bin", "tmp", "*.log", ".env", "coverage.out"} :
        Contains(path, pattern)

FullstackShouldSkip(path) ==
    LET baseName == Base(path)
    IN  IF Contains(path, "node_modules") THEN TRUE
        ELSE IF baseName = "api" /\ ~HasSuffix(path, ".go") THEN TRUE
        ELSE IF baseName \in {".dockerignore", ".gitignore", ".golangci.yml",
                              ".golangci.yaml", ".env.example"}
             THEN FALSE
        ELSE IF Contains(path, ".claude") THEN FALSE
        ELSE shouldSkipCommon(path, {"vendor", "bin", "tmp", "coverage", "dist", "build"})

ShouldSkip(type, path) ==
    CASE type = "frontend"  -> FrontendShouldSkip(path)
      [] type = "go-api"    -> GoAPIShouldSkip(path)
      [] type = "fullstack" -> FullstackShouldSkip(path)

FrontendShouldTemplate(filePath) ==
    filePath \in {"package.json", "README.md", "src/config/app.ts", "index.html"}

GoAPIShouldTemplate(filePath) ==
    \/ filePath \in {"go.mod", "README.md", "docker-compose.yml", "cmd/api/main.go",
                     "internal/shared/config/config.go", "Makefile"}
    \/ HasSuffix(filePath, ".go")

FullstackShouldTemplate(filePath) ==
    \/ filePath \in {"go.mod", "README.md", "docker-compose.yml", "cmd/api/main.go",
                     "internal/shared/config/config.go", "Makefile",
                     "frontend/package.json", "frontend/index.html",
                     "frontend/src/config/app.ts"}
    \/ HasSuffix(filePath, ".go")

ShouldTemplate(type, filePath) ==
    CASE type = "frontend"  -> FrontendShouldTemplate(filePath)
      [] type = "go-api"    -> GoAPIShouldTemplate(filePath)
      [] type = "fullstack" -> FullstackShouldTemplate(filePath)

\* In the mappings below the character "´" stands for the back quote of Go's
\* struct tags.
Mapping(find, replace) == [Find |-> find, Replace |-> replace]

FrontendGetMappings(filePath) ==
    CASE filePath = "package.json" ->
           <<Mapping("\"frontend-template\"", "\"{{.ProjectName}}\""),
             Mapping("\"Your Name\"", "\"{{.Author}}\"")>>
      [] filePath = "src/config/app.ts" ->
           <<Mapping("'Frontend Template'", "'{{.ProjectName}}'"),
             Mapping("'Your Name'", "'{{.Author}}'")>>
      [] filePath = "README.md" ->
           <<Mapping("# Frontend Template", "# {{.ProjectName}}"),
             Mapping("https://github.com/your-username/frontend-template",
                     "https://github.com/{{.GitHubRepo}}")>>
      [] filePath = "index.html" ->
           <<Mapping("<title>Frontend Template</title>", "<title>{{.ProjectName}}</title>")>>
      [] OTHER -> <<>>

GoAPIGetMappings(filePath) ==
    CASE filePath = "go.mod" ->
           <<Mapping("module github.com/acheevo/api-template",
                     "module github.com/{{.GitHubRepo}}")>>
      [] filePath = "cmd/api/main.go" ->
           <<Mapping("\"github.com/acheevo/api-template/", "\"github.com/{{.GitHubRepo}}/")>>
      [] filePath = "README.md" ->
           <<Mapping("# Go API Template", "# {{.ProjectName}}"),
             Mapping("git clone https://github.com/acheevo/api-template.git",
                     "git clone https://github.com/{{.GitHubRepo}}.git"),
             Mapping("cd api-template", "cd {{.ProjectName | kebab}}")>>
      [] filePath = "docker-compose.yml" ->
           <<Mapping("api-template", "{{.ProjectName | kebab}}")>>
      [] filePath = "internal/shared/config/config.go" ->
           <<Mapping("ServiceName    string ´envconfig:\"SERVICE_NAME\" default:\"api-template\"´",
                     "ServiceName    string ´envconfig:\"SERVICE_NAME\" default:\"{{.ProjectName | kebab}}\"´"),
             Mapping("DBName            string ´envconfig:\"DB_NAME\" default:\"api_template\"´",
                     "DBName            string ´envconfig:\"DB_NAME\" default:\"{{.ProjectName | lower}}\"´")>>
      [] filePath = "Makefile" ->
           <<Mapping("docker build -t api-template .", "docker build -t {{.ProjectName | kebab}} ."),
             Mapping("docker rmi api-template", "docker rmi {{.ProjectName | kebab}}")>>
      [] OTHER ->
           IF HasSuffix(filePath, ".go")
           THEN <<Mapping("\"github.com/acheevo/api-template/", "\"github.com/{{.GitHubRepo}}/")>>
           ELSE <<>>

FullstackGetMappings(filePath) ==
    CASE filePath = "go.mod" ->
           <<Mapping("module github.com/acheevo/fullstack-template",
                     "module github.com/{{.GitHubRepo}}")>>
      [] filePath = "cmd/api/main.go" ->
           <<Mapping("\"github.com/acheevo/fullstack-template/", "\"github.com/{{.GitHubRepo}}/")>>
      [] filePath = "README.md" ->
           <<Mapping("# Fullstack Template", "# {{.ProjectName}}"),
             Mapping("# Go + React Fullstack Template", "# {{.ProjectName}}"),
             Mapping("git clone https://github.com/acheevo/fullstack-template.git",
                     "git clone https://github.com/{{.GitHubRepo}}.git"),
             Mapping("cd fullstack-template", "cd {{.ProjectName | kebab}}")>>
      [] filePath = "docker-compose.yml" ->
           <<Mapping("fullstack-template", "{{.ProjectName | kebab}}"),
             Mapping("fullstack_template", "{{.ProjectName | snake}}")>>
      [] filePath = "internal/shared/config/config.go" ->
           <<Mapping("ServiceName    string ´envconfig:\"SERVICE_NAME\" default:\"fullstack-template\"´",
                     "ServiceName    string ´envconfig:\"SERVICE_NAME\" default:\"{{.ProjectName | kebab}}\"´"),
             Mapping("DBName            string ´envconfig:\"DB_NAME\" default:\"fullstack_template\"´",
                     "DBName            string ´envconfig:\"DB_NAME\" default:\"{{.ProjectName | snake}}\"´")>>
      [] filePath = "Makefile" ->
           <<Mapping("docker build -t fullstack-template", "docker build -t {{.ProjectName | kebab}}"),
             Mapping("docker rmi fullstack-template", "docker rmi {{.ProjectName | kebab}}")>>
      [] filePath = "frontend/package.json" ->
           <<Mapping("\"name\": \"fullstack-template\"", "\"name\": \"{{.ProjectName | kebab}}\""),
             Mapping("\"description\": \"Fullstack template\"", "\"description\": \"{{.Description}}\"")>>
      [] filePath = "frontend/index.html" ->
           <<Mapping("<title>Fullstack Template</title>", "<title>{{.ProjectName}}</title>")>>
      [] filePath = "frontend/src/config/app.ts" ->
           <<Mapping("APP_NAME: 'Fullstack Template'", "APP_NAME: '{{.ProjectName}}'")>>
      [] OTHER ->
           IF HasSuffix(filePath, ".go")
           THEN <<Mapping("\"github.com/acheevo/fullstack-template/", "\"github.com/{{.GitHubRepo}}/")>>
           ELSE <<>>

GetMappings(type, filePath) ==
    CASE type = "frontend"  -> FrontendGetMappings(filePath)
      [] type = "go-api"    -> GoAPIGetMappings(filePath)
      [] type = "fullstack" -> FullstackGetMappings(filePath)

\* GetVariables of the three types: the same four declarations, with the
\* type's own default for Description
GetVariables(type) ==
    [isNil |-> FALSE,
     m |-> [n \in {"ProjectName", "GitHubRepo", "Author", "Description"} |->
              CASE n \in {"ProjectName", "GitHubRepo"} ->
                     [Type |-> "string", Required |-> TRUE, Default |-> ""]
                [] n = "Author" ->
                     [Type |-> "string", Required |-> FALSE, Default |-> "Developer"]
                [] n = "Description" ->
                     [Type |-> "string", Required |-> FALSE,
                      Default |-> CASE type = "frontend"  -> "A React TypeScript application"
                                    [] type = "go-api"    -> "A Go REST API application"
                                    [] type = "fullstack" ->
                                         "A fullstack application with Go API and React frontend"]]]

SchemaName(type) ==
    CASE type = "frontend"  -> "frontend-react-template"
      [] type = "go-api"    -> "go-api-template"
      [] type = "fullstack" -> "fullstack-template"

\* calculateSchemaHash (the same code in the three types): SHA-256 of name,
\* type, version and every file's path and hash, written one after another
RECURSIVE PathsAndHashes(_)
PathsAndHashes(files) ==
    IF files = <<>> THEN ""
    ELSE Head(files).Path \o Head(files).Hash \o PathsAndHashes(Tail(files))

calculateSchemaHash(sch) ==
    CalculateContentHash(sch.Name \o sch.Type \o sch.Version \o PathsAndHashes(sch.Files))

(***************************************************************************)
(* internal/envparser: ParseEnvExample.  An EnvVariable is                 *)
(* [Name, Description, Example].                                           *)
(***************************************************************************)
\* bufio.Scanner with ScanLines: the lines of content, without their line
\* ends ("\n" or "\r\n"); nothing after the last line end
ScanLines(content) ==
    LET parts == Split(content, "\n")
        lines == IF parts[Len(parts)] = "" THEN SubSeq(parts, 1, Len(parts) - 1) ELSE parts
    IN  [i \in 1..Len(lines) |->
            IF HasSuffix(lines[i], "\r") THEN SubSeq(lines[i], 1, Len(lines[i]) - 1)
            ELSE lines[i]]

RECURSIVE ParseEnvLines(_, _)
RECURSIVE ParseEnvLinesResetAlways(_, _)
ParseEnvLinesResetAlways(lines, currentDescription) ==
    IF lines = <<>> THEN <<>>
    ELSE LET line == TrimSpace(Head(lines))
             rest == Tail(lines)
         IN  IF line = "" THEN ParseEnvLinesResetAlways(rest, "")
             ELSE IF HasPrefix(line, "#")
             THEN ParseEnvLinesResetAlways(rest, TrimSpace(From(line, 2)))
             ELSE IF Contains(line, "=")
             THEN LET i == Index(line, "=")
                  IN  <<[Name        |-> TrimSpace(SubSeq(line, 1, i - 1)),
                         Description |-> currentDescription,
                         Example     |-> TrimSpace(From(line, i + 1))]>>
                        \o ParseEnvLinesResetAlways(rest, "")
             ELSE ParseEnvLinesResetAlways(rest, "")

ParseEnvLines(lines, currentDescription) ==
    IF lines = <<>> THEN <<>>
    ELSE LET line == TrimSpace(Head(lines))
             rest == Tail(lines)
         IN  IF line = "" THEN ParseEnvLines(rest, "")
             ELSE IF HasPrefix(line, "#")
             THEN LET comment == TrimSpace(From(line, 2))
                  IN  ParseEnvLines(rest, IF comment # "" THEN comment ELSE currentDescription)
             ELSE IF Contains(line, "=")
             THEN LET i == Index(line, "=")
                  IN  <<[Name        |-> TrimSpace(SubSeq(line, 1, i - 1)),
                         Description |-> currentDescription,
                         Example     |-> TrimSpace(From(line, i + 1))]>>
                        \o ParseEnvLines(rest, "")
             ELSE ParseEnvLines(rest, currentDescription)

ParseEnvExample(content) == ParseEnvLines(ScanLines(content), "")


(***************************************************************************)
(* Extract of the three template types.  The source tree is a set of       *)
(* entries [path, dir, content, fault]: path is relative to sourceDir,     *)
(* fault is "none", "lstat" (the entry cannot be examined) or "read" (a    *)
(* file that cannot be read, a directory that cannot be listed).           *)
(* filepath.Walk calls the walk function on sourceDir and then on every    *)
(* entry beneath it, the names of each directory in lexical order.         *)
(***************************************************************************)
\* the bytes that occur in file names, in increasing order
ByteOrder == "-.0123456789ABCDEFGHIJKLMNOPQRSTUVWXYZ_abcdefghijklmnopqrstuvwxyz"

RECURSIVE LessName(_, _)
LessName(a, b) ==
    IF a = "" THEN b # ""
    ELSE IF b = "" THEN FALSE
    ELSE IF At(a, 1) = At(b, 1) THEN LessName(From(a, 2), From(b, 2))
    ELSE Index(ByteOrder, At(a, 1)) < Index(ByteOrder, At(b, 1))

\* the names on the way from sourceDir to the entry; none for sourceDir
Names(path) == IF path = "." THEN <<>> ELSE Split(path, "/")

\* p is walked before q: a directory before its entries, siblings by name
RECURSIVE WalkedBefore(_, _)
WalkedBefore(p, q) ==
    IF p = <<>> THEN q # <<>>
    ELSE IF q = <<>> THEN FALSE
    ELSE IF Head(p) = Head(q) THEN WalkedBefore(Tail(p), Tail(q))
    ELSE LessName(Head(p), Head(q))

\* the directories on the way to the entries of the tree, sourceDir included
RECURSIVE Ancestors(_)
Ancestors(path) ==
    IF path = "." THEN {"."} ELSE {Dir(path)} \cup Ancestors(Dir(path))

DirEntry(path) == [path |-> path, dir |-> TRUE, content |-> "", fault |-> "none"]

WithDirs(tree) ==
    tree \cup {DirEntry(d) : d \in (UNION {Ancestors(e.path) : e \in tree} \cup {"."})
                                     \ {e.path : e \in tree}}

RECURSIVE InWalkOrder(_)
InWalkOrder(entries) ==
    IF entries = {} THEN <<>>
    ELSE LET first == CHOOSE e \in entries :
                         \A o \in entries \ {e} : WalkedBefore(Names(e.path), Names(o.path))
         IN  <<first>> \o InWalkOrder(entries \ {first})

RECURSIVE Reverse(_)
Reverse(q) == IF q = <<>> THEN <<>> ELSE Append(Reverse(Tail(q)), Head(q))

\* filepath.Rel(basepath, targpath) for a target at or beneath the base
Rel(basepath, targpath) ==
    LET base == Clean(basepath)
        targ == Clean(targpath)
    IN  IF targ = base THEN "."
        ELSE IF base = "." THEN targ
        ELSE IF base = "/" THEN From(targ, 2)
        ELSE From(targ, Len(base) + 2)

\* the FileSpec the walk function appends: only the frontend type
\* compresses; the others store the content as it is
ExtractFileOf(type, relPath, content) ==
    IF type = "frontend"
    THEN ExtractFile(relPath, content, ShouldTemplate(type, relPath), GetMappings(type, relPath))
    ELSE [Path       |-> relPath,
          Template   |-> ShouldTemplate(type, relPath),
          Content    |-> content,
          Size       |-> Len(content),
          Hash       |-> CalculateContentHash(content),
          Compressed |-> FALSE,
          Mappings   |-> IF ShouldTemplate(type, relPath)
                         THEN GetMappings(type, relPath) ELSE <<>>]

\* the EnvConfig that Extract leaves in the schema: frontend and fullstack
\* parse sourceDir/.env.example when os.Stat and os.ReadFile succeed on it
EnvConfigOf(type, tree) ==
    LET found == {e \in tree : e.path = ".env.example" /\ ~e.dir /\ e.fault = "none"}
    IN  IF type = "go-api" \/ found = {} THEN <<>>
        ELSE ParseEnvExample((CHOOSE e \in found : TRUE).content)

NilSchema == [isNil |-> TRUE]

\* the schema Extract returns after a walk that appended files
ExtractedSchema(type, tree, files) ==
    LET sch == [Name      |-> SchemaName(type),
                Type      |-> type,
                Version   |-> "1.0.0",
                Variables |-> GetVariables(type),
                Files     |-> files,
                EnvConfig |-> EnvConfigOf(type, tree)]
    IN  [isNil     |-> FALSE,
         Name      |-> sch.Name,
         Type      |-> sch.Type,
         Version   |-> sch.Version,
         Variables |-> sch.Variables,
         Files     |-> sch.Files,
         EnvConfig |-> sch.EnvConfig,
         Hash      |-> calculateSchemaHash(sch)]


\* the order in which a second walk would meet the entries if directories
\* were listed as the file system happens to return them
WalkOrderAsListed(tree) ==
    IF call.run = 1 THEN InWalkOrder(WithDirs(tree)) ELSE Reverse(InWalkOrder(WithDirs(tree)))

\* the entries in the order filepath.Walk calls the walk function on them
WalkOrder(tree) == InWalkOrder(WithDirs(tree))

(***************************************************************************)
(* Extract as a state machine: call holds the template type, sourceDir,    *)
(* the tree, the entries still to be walked, the FileSpecs appended so     *)
(* far, and what Extract returned (out, err).  Extract may be called a     *)
(* second time on the same tree; first keeps what the first call returned. *)
(***************************************************************************)
File(path, content) == [path |-> path, dir |-> FALSE, content |-> content, fault |-> "none"]

EnvExampleContent ==
    "# Server configuration\nHTTP_ADDR=:8080\n\n# Database\nDB_HOST = localhost\nNOT A VARIABLE\nDB_PORT=5432\n"

\* the entries the source trees are made of
TreePool ==
    {File("README.md", "# Frontend Template\n"),
     File("package.json", "{\"name\": \"frontend-template\"}"),
     File(".env.example", EnvExampleContent),
     [File(".env.example", EnvExampleContent) EXCEPT !.fault = "read"],
     File(".github/workflows/ci.yml", "on: push"),
     File(".gitignore", "dist\n"),
     File("node_modules/pkg/index.js", "module.exports = 1"),
     File("cmd/api/main.go", "package main"),
     File("debug.log", "started"),
     File("empty.txt", ""),
     File("src/big.ts", LongText),
     [File("secret.key", "") EXCEPT !.fault = "read"],
     [File("gone.txt", "") EXCEPT !.fault = "lstat"],
     [DirEntry("private") EXCEPT !.fault = "read"]}

SourceTrees ==
    {t \in SUBSET TreePool :
        /\ Cardinality(t) <= MaxFiles + 1
        /\ \A a, b \in t : a.path = b.path => a = b}

SourceDirs == {"project", "/tmp/go-api-test-1", "repo.git/app"}

InitExtract ==
    /\ GeneratorIdle
    /\ call \in {[fn |-> "Extract", type |-> type, sourceDir |-> dir, tree |-> tree,
                  step |-> "start", todo |-> <<>>, files |-> <<>>,
                  out |-> NilSchema, err |-> NoError, run |-> 1,
                  first |-> [out |-> NilSchema, err |-> NoError]] :
                    type \in TemplateTypes, dir \in SourceDirs, tree \in SourceTrees}

\* Extract up to the call of filepath.Walk
StartWalk ==
    /\ call.fn = "Extract" /\ call.step = "start"
    /\ call' = [call EXCEPT !.step = "walk", !.todo = WalkOrder(call.tree), !.files = <<>>]
    /\ UNCHANGED generatorVars

WalkFailedPartial(c, message) ==
    [c EXCEPT !.step = "failed", !.out = ExtractedSchema(c.type, c.tree, c.files),
              !.err = message]

\* what Extract returns when filepath.Walk returns an error: no schema
WalkFailed(c, message) ==
    [c EXCEPT !.step = "failed", !.out = NilSchema, !.err = message]

\* one call of the walk function, and Extract's return when it fails
WalkFn ==
    /\ call.fn = "Extract" /\ call.step = "walk" /\ call.todo # <<>>
    /\ LET e       == Head(call.todo)
           path    == Join(call.sourceDir, e.path)
           relPath == Rel(call.sourceDir, path)
           failed(message) == WalkFailed(call, message)
       IN  call' =
             IF e.fault = "lstat"
             THEN failed("lstat " \o path \o ": no such file or directory")
             ELSE IF e.dir /\ e.fault = "read"
             THEN failed("open " \o path \o ": permission denied")
             ELSE IF e.dir \/ ShouldSkip(call.type, path)
             THEN [call EXCEPT !.todo = Tail(@)]
             ELSE IF e.fault = "read"
             THEN failed("open " \o path \o ": permission denied")
             ELSE [call EXCEPT !.todo = Tail(@),
                               !.files = Append(@, ExtractFileOf(call.type, relPath, e.content))]
    /\ UNCHANGED generatorVars

\* Extract after the walk: .env.example, the schema hash, the return
ExtractReturn ==
    /\ call.fn = "Extract" /\ call.step = "walk" /\ call.todo = <<>>
    /\ call' = [call EXCEPT !.step = "done",
                            !.out = ExtractedSchema(call.type, call.tree, call.files),
                            !.err = NoError]
    /\ UNCHANGED generatorVars

\* Extract called once more on the unchanged tree
ExtractAgain ==
    /\ call.fn = "Extract" /\ call.step \in {"done", "failed"} /\ call.run = 1
    /\ call' = [call EXCEPT !.step = "start", !.run = 2, !.todo = <<>>, !.files = <<>>,
                            !.out = NilSchema, !.err = NoError,
                            !.first = [out |-> call.out, err |-> call.err]]
    /\ UNCHANGED generatorVars

NextExtract == StartWalk \/ WalkFn \/ ExtractReturn \/ ExtractAgain

SpecExtract == InitExtract /\ [][NextExtract]_vars


(***************************************************************************)
(* Properties.                                                             *)
(***************************************************************************)
\* FileSpec i is the one Generate has just written
JustWritten(i) == pc \in {"Writing", "Done"} /\ next = i + 1

\* the content of the file written for FileSpec i
Written(i) == disk.files[Join(outputDir, schema.Files[i].Path)]

RenderErrors == {"failed to parse template", "unsupported action", "failed to decompress content"}

\* Generate stopped at FileSpec i because its content could not be rendered
RenderFailedAt(i) ==
    /\ pc = "Failed" /\ next = i
    /\ \E m \in RenderErrors :
          err = "failed to process file " \o schema.Files[i].Path \o ": " \o m

\* the bound value of a substitution expression
KnownValue(expr, vs) ==
    CASE expr = "{{.ProjectName}}"         -> vs.ProjectName
      [] expr = "{{.GitHubRepo}}"          -> vs.GitHubRepo
      [] expr = "{{.Author}}"              -> vs.Author
      [] expr = "{{.Description}}"         -> vs.Description
      [] expr = "{{.ProjectName | kebab}}" -> kebab(vs.ProjectName)
      [] expr = "{{.ProjectName | snake}}" -> snake(vs.ProjectName)
      [] expr = "{{.ProjectName | upper}}" -> ToUpper(vs.ProjectName)
      [] expr = "{{.ProjectName | lower}}" -> ToLower(vs.ProjectName)
      [] expr = "{{.ProjectName | title}}" -> title(vs.ProjectName)

KnownExpressions == {e.find : e \in templateReplacements}

\* content read once from left to right: each substitution expression
\* gives way to its value, every other character is copied
RECURSIVE ExpandKnown(_, _)
ExpandKnown(content, vs) ==
    LET starts == {i \in 1..Len(content) :
                      \E x \in KnownExpressions : HasPrefix(From(content, i), x)}
    IN  IF starts = {} THEN content
        ELSE LET i == Min(starts)
                 x == CHOOSE y \in KnownExpressions : HasPrefix(From(content, i), y)
             IN  SubSeq(content, 1, i - 1) \o KnownValue(x, vs)
                    \o ExpandKnown(From(content, i + Len(x)), vs)

\* the stored content of a FileSpec, decompressed
Stored(f) == IF f.Compressed THEN GunzipBase64(f.Content).out ELSE f.Content

\* C1: a templated FileSpec without mappings is written with every
\* substitution expression replaced by its bound value and all other text
\* unchanged, and its rendering does not fail; the README of the tests
\* gives "# test-project\n\nRepository: user/test-repo".
C1_SubstitutionCorrect ==
    \A i \in 1..Len(schema.Files) :
        LET f == schema.Files[i]
        IN  (f.Template /\ f.Mappings = <<>>) =>
               /\ ~RenderFailedAt(i)
               /\ JustWritten(i) => Written(i) = ExpandKnown(Stored(f), variables)
               /\ (JustWritten(i) /\ f.Content = ReadmeContent
                     /\ variables.ProjectName = "test-project"
                     /\ variables.GitHubRepo = "user/test-repo")
                    => Written(i) = "# test-project\n\nRepository: user/test-repo"

\* the texts "{{ ... }}" of content: from a left delimiter to the first right
\* delimiter after it
DelimitedRegions(content) ==
    LET lefts == {i \in 1..(Len(content) - 1) : SubSeq(content, i, i + 1) = LeftDelim}
        close(i) == Index(From(content, i + 2), RightDelim)
    IN  {SubSeq(content, i, i + 1 + close(i) + 1) : i \in {k \in lefts : close(k) > 0}}

HasKnownExpression(content) == \E x \in KnownExpressions : Contains(content, x)

\* C2: when the content of a templated FileSpec without mappings holds
\* delimiter pairs and no substitution expression, generation does not fail
\* on it and every "{{ ... }}" of the content is in the written file as it was.
C2_DelimitersSurvive ==
    \A i \in 1..Len(schema.Files) :
        LET f == schema.Files[i]
        IN  (f.Template /\ f.Mappings = <<>> /\ ~f.Compressed
               /\ ~HasKnownExpression(f.Content) /\ DelimitedRegions(f.Content) # {}) =>
               /\ ~RenderFailedAt(i)
               /\ JustWritten(i) =>
                     \A r \in DelimitedRegions(f.Content) : Contains(Written(i), r)

\* C3: a FileSpec with Template = false is written as its decompressed
\* stored content, whatever its mappings and whatever expressions or
\* delimiters the content holds.
C3_StaticVerbatim ==
    \A i \in 1..Len(schema.Files) :
        (JustWritten(i) /\ ~schema.Files[i].Template) =>
            Written(i) = Stored(schema.Files[i])

C3_Witness ==
    \E i \in 1..Len(schema.Files) :
        /\ JustWritten(i) /\ ~schema.Files[i].Template
        /\ schema.Files[i].Mappings # <<>>
        /\ Contains(schema.Files[i].Content, schema.Files[i].Mappings[1].Find)
        /\ HasKnownExpression(schema.Files[i].Content)

\* C4: the schema that NewGenerator reads back from the JSON text of a
\* valid schema validates and renders every file as the schema in memory
\* does.
C4_JSONRoundTrip ==
    (pc = "Created" /\ ValidateSchema(memSchema) = {NoError}) =>
        /\ ValidateSchema(schema) = {NoError}
        /\ Len(schema.Files) = Len(memSchema.Files)
        /\ \A i \in 1..Len(schema.Files) :
              /\ schema.Files[i].Path = memSchema.Files[i].Path
              /\ Render(schema.Files[i], variables) = Render(memSchema.Files[i], variables)


\* C5: DecompressContent gives back, without error, the content that
\* CompressContent was called on, and the hash of what it gives back is
\* the hash of that content.
C5_CodecRoundTrip ==
    (call.fn = "codec" /\ call.step \in {"decoded", "hashed"}) =>
        /\ ~call.decoded.err
        /\ call.decoded.out = call.content
        /\ call.step = "hashed" => call.hash = "sha256(" \o call.content \o ")"

C5_Witness ==
    /\ call.fn = "codec" /\ call.step = "hashed"
    /\ call.compressed
    /\ Len(call.stored) < Len(call.content)

\* the FileSpec whose content was edited
EditedFile == call.schema.Files[call.edited]

AfterEdit == call.fn = "ValidateSchema" /\ call.done /\ call.edited > 0

\* C6 as claimed: after the stored content of a hashed FileSpec of a valid
\* schema is changed, ValidateSchema fails with the hash-mismatch error
\* that names the FileSpec's path.
C6_HashMismatchAlways ==
    AfterEdit => HasPrefix(call.out, "file " \o EditedFile.Path \o " hash mismatch")

\* C6 amended: ValidateSchema then fails with an error that names the path:
\* the missing-content error when the new content is empty, the
\* decompression error when the FileSpec is compressed and the new content
\* does not decode, the hash-mismatch error when the content (decoded, if
\* compressed) differs from the hashed bytes; it passes when a compressed
\* FileSpec's new content still decodes to the hashed bytes.
C6_EditDetected ==
    AfterEdit =>
        LET f   == EditedFile
            new == GunzipBase64(f.Content)
            old == GunzipBase64(call.before)
        IN  IF f.Content = "" THEN call.out = "file " \o f.Path \o " must have content"
            ELSE IF ~f.Compressed
                 THEN HasPrefix(call.out, "file " \o f.Path \o " hash mismatch")
            ELSE IF new.err
                 THEN call.out = "file " \o f.Path \o " failed to decompress for validation"
            ELSE IF new.out = old.out THEN call.out = NoError
            ELSE HasPrefix(call.out, "file " \o f.Path \o " hash mismatch")

C6_Witness ==
    /\ AfterEdit
    /\ EditedFile.Compressed
    /\ EditedFile.Content # call.before
    /\ ~GunzipBase64(EditedFile.Content).err
    /\ HasPrefix(call.out, "file " \o EditedFile.Path \o " hash mismatch")

\* C7: a schema with an empty name gets the name-missing error, whatever
\* else is wrong with it.
C7_NameFirst ==
    (call.fn = "ValidateSchema" /\ call.done /\ call.schema.Name = "") =>
        call.out = "schema name is required"

C7_Witness ==
    /\ call.fn = "ValidateSchema" /\ call.done
    /\ call.schema.Name = "" /\ call.schema.Type = "" /\ call.schema.Version = ""
    /\ call.schema.Variables.isNil
    /\ call.schema.Files = <<>>

\* the tree on disk when the running call of Generate began
StartDisk == IF call.fn = "Generate" THEN call.first ELSE EmptyDisk

ValidationFailed ==
    pc = "Failed" /\ (HasPrefix(err, "invalid schema: ") \/ HasPrefix(err, "invalid variables: "))

LeavesCreated ==
    (pc = "Created" /\ pc' # "Created") =>
        /\ pc' \in {"Validated", "Failed"}
        /\ (pc' = "Failed") <=>
              (ValidateSchema(schema) # {NoError}
                 \/ ValidateVariables(schema, variables) # {NoError})
        /\ (pc' = "Failed") => ValidationFailed'
        /\ disk' = disk

WritesOnlyWhenWriting ==
    (disk'.files # disk.files) => (pc = "Writing" /\ pc' \in {"Writing", "Done", "Failed"})

\* a call of Generate ends in Done or Failed and goes nowhere from there;
\* only the caller's next call of Generate starts over
FinalStates ==
    (pc \in {"Done", "Failed"}) => (pc' = pc \/ (call = NoCall /\ call'.fn = "Generate"))

\* C8: nothing is created on disk before both validations have passed; a
\* failed validation takes the Generator from Created to Failed with that
\* error and nothing on disk, a passed one to Validated; files are written
\* only from Writing on; Done and Failed are final.
C8_ValidateBeforeWrite ==
    /\ [](pc \in {"Start", "Rejected", "Created", "Validated"} => disk = StartDisk)
    /\ [](ValidationFailed => (disk = StartDisk /\ next = 1))
    /\ [][LeavesCreated]_vars
    /\ [][WritesOnlyWhenWriting]_vars
    /\ [][FinalStates]_vars

C8_Witness ==
    /\ pc = "Failed"
    /\ HasPrefix(err, "invalid variables: ")
    /\ call = NoCall
    /\ disk = EmptyDisk

\* C9: the mappings of a templated FileSpec act as literal replace-all, in
\* declared order and each on the result of the one before, ahead of the
\* rest of the pipeline: the file is rendered as a FileSpec without
\* mappings whose content is the replaced text would be.  "module old/path"
\* mapped to "module github.com/{{.GitHubRepo}}" is written as
\* "module github.com/acme/widget" when GitHubRepo is "acme/widget".
C9_MappingsFirst ==
    \A i \in 1..Len(schema.Files) :
        LET f  == schema.Files[i]
            m  == f.Mappings
            c1 == ReplaceAll(Stored(f), m[1].Find, m[1].Replace)
            c2 == IF Len(m) = 1 THEN c1 ELSE ReplaceAll(c1, m[2].Find, m[2].Replace)
            direct == RenderTemplated(PlainFile(f.Path, c2, TRUE, <<>>), variables)
        IN  (f.Template /\ Len(m) \in {1, 2}) =>
               /\ JustWritten(i) => [err |-> NoError, out |-> Written(i)] \in direct
               /\ RenderFailedAt(i) => \E r \in direct : r.err # NoError
               /\ (JustWritten(i) /\ Stored(f) = "module old/path" /\ m = <<GoModMapping>>
                     /\ variables.GitHubRepo = "acme/widget")
                    => Written(i) = "module github.com/acme/widget"

C9_Witness ==
    \E i \in 1..Len(schema.Files) :
        /\ JustWritten(i)
        /\ schema.Files[i].Template
        /\ Len(schema.Files[i].Mappings) = 2
        /\ Contains(schema.Files[i].Content, "old/path")
        /\ Written(i) = "// Developer\nDeveloper"

Bound(variable, name) ==
    CASE name = "ProjectName" -> variable.ProjectName
      [] name = "GitHubRepo"  -> variable.GitHubRepo
      [] name = "Author"      -> variable.Author
      [] name = "Description" -> variable.Description

\* C10: ValidateVariables fails exactly when some required
\* well-known variable has an empty bound value and an empty default.
C10_DefaultAccepted ==
    (call.fn = "ValidateVariables" /\ call.done) =>
        LET m == call.schema.Variables.m
        IN  (call.out # NoError) <=>
               \E n \in DOMAIN m \cap WellKnown :
                  m[n].Required /\ Bound(call.variables, n) = "" /\ m[n].Default = ""

\* the schema without the variables that are not well-known
WithoutCustom(sch) ==
    [sch EXCEPT !.Variables.m = [n \in DOMAIN @ \cap WellKnown |-> @[n]]]

\* C11: the outcome of ValidateVariables is its outcome for the schema with
\* every variable that is not well-known removed; when the required
\* variables of a schema are all of that kind, it passes whatever is bound.
C11_CustomUnenforced ==
    (call.fn = "ValidateVariables" /\ call.done) =>
        LET m == call.schema.Variables.m
        IN  /\ ValidateVariables(call.schema, call.variables)
                 = ValidateVariables(WithoutCustom(call.schema), call.variables)
            /\ call.out \in ValidateVariables(WithoutCustom(call.schema), call.variables)
            /\ (\A n \in DOMAIN m : m[n].Required => n \notin WellKnown)
                 => call.out = NoError

C11_Witness ==
    /\ call.fn = "ValidateVariables" /\ call.done
    /\ "Port" \in DOMAIN call.schema.Variables.m
    /\ call.schema.Variables.m["Port"] = [Type |-> "string", Required |-> TRUE, Default |-> ""]
    /\ \A n \in DOMAIN call.schema.Variables.m : n # "Port" => ~call.schema.Variables.m[n].Required
    /\ call.variables = NoVariables
    /\ call.out = NoError

\* C12: the Generator binds Author and Description to the caller's values
\* when the caller gives them and to 'Developer' and
\* 'A <ProjectName> application' when not, and a file whose content is
\* {{.Author}} is written as that Author.
C12_CallerOverrides ==
    (pc \in {"Created", "Validated", "Writing", "Done"}) =>
        /\ variables.Author =
              (IF args.Author = "" THEN "Developer" ELSE args.Author)
        /\ variables.Description =
              (IF args.Description = ""
               THEN "A " \o args.ProjectName \o " application"
               ELSE args.Description)
        /\ \A i \in 1..Len(schema.Files) :
              (JustWritten(i) /\ schema.Files[i].Template
                 /\ schema.Files[i].Mappings = <<>> /\ Stored(schema.Files[i]) = "{{.Author}}")
                => Written(i) = (IF args.Author = "" THEN "Developer" ELSE args.Author)

\* s with every space replaced by the character c and every letter in
\* lower case, compared position by position
IsLowerWithSpacesAs(t, s, c) ==
    /\ Len(t) = Len(s)
    /\ \A i \in 1..Len(s) :
          At(t, i) = (IF At(s, i) = " " THEN c ELSE LowerChar(At(s, i)))

\* C13: kebab gives the lower-cased string with '-' for each space, snake
\* the lower-cased string with '_' for each space, for every value bound to
\* the Generator; '{{.ProjectName | kebab}}/{{.ProjectName | snake}}' with
\* ProjectName 'My Cool App' is written as 'my-cool-app/my_cool_app'.
C13_CaseHelpers ==
    (pc \in {"Created", "Validated", "Writing", "Done"}) =>
        /\ pc = "Created" => \A s \in {variables.ProjectName, variables.GitHubRepo,
                     variables.Author, variables.Description} :
              /\ IsLowerWithSpacesAs(kebab(s), s, "-")
              /\ IsLowerWithSpacesAs(snake(s), s, "_")
        /\ \A i \in 1..Len(schema.Files) :
              (JustWritten(i) /\ schema.Files[i].Template /\ schema.Files[i].Mappings = <<>>
                 /\ Stored(schema.Files[i]) = HelpersContent)
                => /\ \E k, n \in {variables.ProjectName} \cup {kebab(variables.ProjectName), snake(variables.ProjectName)} :
                         /\ IsLowerWithSpacesAs(k, variables.ProjectName, "-")
                         /\ IsLowerWithSpacesAs(n, variables.ProjectName, "_")
                         /\ Written(i) = k \o "/" \o n
                   /\ variables.ProjectName = "My Cool App"
                         => Written(i) = "my-cool-app/my_cool_app"

C13_Witness ==
    /\ pc = "Done"
    /\ variables.ProjectName = "My Cool App"
    /\ Len(schema.Files) = 1
    /\ schema.Files[1].Content = HelpersContent
    /\ Written(1) = "my-cool-app/my_cool_app"

\* C14: a second call of Generate does not fail at the output directory
\* because the directory is there already (only when the system refuses),
\* and when it returns nil the tree is the tree the first call left.
C14_RerunSameTree ==
    (call.fn = "Generate") =>
        /\ (pc = "Failed" /\ HasPrefix(err, "failed to create output directory"))
              => err = "failed to create output directory: permission denied"
        /\ pc = "Done" => disk = call.first

Returned == call.fn = "Extract" /\ call.step \in {"done", "failed"}

\* paths and content hashes of the FileSpecs, in their order
PathsHashes(sch) == [i \in 1..Len(sch.Files) |-> <<sch.Files[i].Path, sch.Files[i].Hash>>]

CarvedOut(tree) ==
    {e \in tree : ~e.dir /\ (HasPrefix(e.path, ".github/") \/ Base(e.path) = ".env.example")}

\* C16: for each template type ShouldSkip is false for a file under a
\* .github directory and for a file named .env.example, and a schema that
\* Extract returns has a FileSpec for each such file of the tree.
C16_DotfilesKept ==
    (call.fn = "Extract" /\ call.step = "done") =>
        \A e \in CarvedOut(call.tree) :
            /\ ~ShouldSkip(call.type, Join(call.sourceDir, e.path))
            /\ \E i \in 1..Len(call.out.Files) : call.out.Files[i].Path = e.path

\* the KEY=value lines of a .env.example text: not blank, not a comment,
\* with an "="
KeyValueLines(content) ==
    LET lines == ScanLines(content)
    IN  SelectSeq([i \in 1..Len(lines) |-> TrimSpace(lines[i])],
                  LAMBDA l : l # "" /\ ~HasPrefix(l, "#") /\ Contains(l, "="))

EnvExampleOf(tree) == {e \in tree : e.path = ".env.example"}

\* C17: with a readable .env.example at the root, Extract of any template
\* type returns a schema whose EnvConfig has one EnvVariable per KEY=value
\* line; with none, or one that cannot be read, Extract does not fail over
\* it and returns an empty EnvConfig.
C17_EnvConfigExtracted ==
    (Returned) =>
        \A e \in EnvExampleOf(call.tree) \cup {DirEntry(".")} :
            IF e.path = ".env.example" /\ e.fault = "none"
            THEN call.step = "done" =>
                    LET lines == KeyValueLines(e.content)
                    IN  /\ Len(call.out.EnvConfig) = Len(lines)
                        /\ \A i \in 1..Len(lines) :
                              HasPrefix(lines[i], call.out.EnvConfig[i].Name)
            ELSE IF e.path = ".env.example"
            THEN /\ call.step = "failed" => ~HasSuffix(call.err, ".env.example: permission denied")
                 /\ call.step = "done" => call.out.EnvConfig = <<>>
            ELSE (EnvExampleOf(call.tree) = {} /\ call.step = "done")
                    => call.out.EnvConfig = <<>>


(***************************************************************************)
(* internal/generate/run.go: the generate command of the command line.     *)
(* call holds the command line (os.Args[2:]) and the state of the template *)
(* file it names; memSchema is the schema whose JSON text that file holds. *)
(***************************************************************************)
NoFlags == [outputDir |-> "./", projectName |-> "", githubRepo |-> "", err |-> NoError]

\* the flag loop of Run, from the 1-based position i of argv
RECURSIVE ParseFlags(_, _, _)
ParseFlags(argv, i, acc) ==
    IF i > Len(argv) THEN acc
    ELSE IF argv[i] \notin {"--project-name", "--github-repo", "--output-dir"}
    THEN [acc EXCEPT !.err = "unknown flag: " \o argv[i]]
    ELSE IF i + 1 > Len(argv)
    THEN [acc EXCEPT !.err = "flag " \o argv[i] \o " requires a value"]
    ELSE ParseFlags(argv, i + 2,
                    IF argv[i] = "--project-name" THEN [acc EXCEPT !.projectName = argv[i + 1]]
                    ELSE IF argv[i] = "--github-repo" THEN [acc EXCEPT !.githubRepo = argv[i + 1]]
                    ELSE [acc EXCEPT !.outputDir = argv[i + 1]])

\* os.Stat(path) returns no error: the working directory always exists
StatOK(d, path) ==
    \/ Clean(path) = "."
    \/ Clean(path) \in d.dirs
    \/ Clean(path) \in DOMAIN d.files

\* generate up to its call of generator.Generate
generate(templateFile, dir, projectName, githubRepo) ==
    IF call.template = "absent"
    THEN Reject("template file does not exist: " \o templateFile)
    ELSE IF StatOK(disk, dir)
    THEN Reject("output directory already exists: " \o dir)
    ELSE IF call.template = "unreadable"
    THEN Reject("failed to create generator: failed to read schema file: open "
                \o templateFile \o ": permission denied")
    ELSE NewGeneratorState(memSchema, dir, projectName, githubRepo)

\* Run up to the call of generator.Generate
Run ==
    /\ pc = "Shell"
    /\ call.fn = "Run"
    /\ LET argv  == call.argv
           flags == ParseFlags(argv, 2, NoFlags)
       IN  IF Len(argv) = 0
           THEN Reject("usage: template-engine generate <template.json> [flags]")
           ELSE IF flags.err # NoError THEN Reject(flags.err)
           ELSE IF flags.projectName = "" THEN Reject("--project-name is required")
           ELSE IF flags.githubRepo = "" THEN Reject("--github-repo is required")
           ELSE generate(argv[1], flags.outputDir, flags.projectName, flags.githubRepo)
    /\ UNCHANGED <<memSchema, args, disk, next, call>>

\* the error that Run returns once the command is over
RunResult ==
    IF pc = "Failed" THEN "failed to generate project: " \o err ELSE err

RequiredFlags == <<"--project-name", "My App", "--github-repo", "user/my-app">>

CommandLines ==
    {<<>>,
     <<"my-frontend.json">>,
     <<"my-frontend.json">> \o RequiredFlags,
     <<"my-frontend.json", "--github-repo", "user/my-app", "--project-name", "My App">>,
     <<"my-frontend.json">> \o RequiredFlags \o <<"--output-dir", "out">>,
     <<"my-frontend.json">> \o RequiredFlags \o <<"--output-dir", "./out/">>,
     <<"my-frontend.json">> \o RequiredFlags \o <<"--output-dir", "existing">>,
     <<"my-frontend.json">> \o RequiredFlags \o <<"--output-dir", "./">>,
     <<"my-frontend.json">> \o RequiredFlags \o <<"--output-dir">>,
     <<"my-frontend.json", "--project-name", "My App">>,
     <<"my-frontend.json", "--verbose">> \o RequiredFlags}

InitRun ==
    /\ pc = "Shell"
    /\ memSchema \in TreeSchemas
    /\ args = Caller("", "", "")
    /\ schema = NoSchema
    /\ variables = NoVariables
    /\ outputDir = ""
    /\ disk = [dirs |-> {"existing"}, files |-> <<>>]
    /\ next = 1
    /\ err = NoError
    /\ call \in [fn : {"Run"}, argv : CommandLines,
                 template : {"absent", "unreadable", "present"}]

NextRun ==
    \/ Run
    \/ GenerateValidate
    \/ GenerateMkdirAll
    \/ ProcessFile

SpecRun == InitRun /\ [][NextRun]_vars

\* the command line gives both required flags and no --output-dir, and the
\* template file exists and holds a schema that passes validation
DefaultInvocation ==
    /\ call.fn = "Run"
    /\ call.template = "present"
    /\ Len(call.argv) = 5
    /\ ParseFlags(call.argv, 2, NoFlags).err = NoError
    /\ ParseFlags(call.argv, 2, NoFlags).projectName # ""
    /\ ParseFlags(call.argv, 2, NoFlags).githubRepo # ""
    /\ ValidateSchema(JSONRoundTrip(memSchema)) = {NoError}

\* C18: generate on an existing, valid template file with --project-name
\* and --github-repo and no --output-dir is not refused: it goes on to
\* Generate with the output directory "./", and when no system call fails
\* it returns no error with every file of the schema written under "./".
C18_DefaultOutputDir ==
    DefaultInvocation =>
        /\ pc # "Rejected"
        /\ pc \in {"Created", "Validated", "Writing", "Failed", "Done"} => outputDir = "./"
        /\ pc = "Done" =>
              /\ RunResult = NoError
              /\ \A i \in 1..Len(schema.Files) :
                    Join("./", schema.Files[i].Path) \in DOMAIN disk.files


\* the walk function returns an error at the entry e of the tree
FailsAt(type, sourceDir, e) ==
    \/ e.fault = "lstat"
    \/ e.dir /\ e.fault = "read"
    \/ ~e.dir /\ e.fault = "read" /\ ~ShouldSkip(type, Join(sourceDir, e.path))

\* C19: when walking an entry or reading a non-skipped file fails, Extract
\* stops at the first such entry in walk order and returns a nil schema with
\* the error, whatever it had read before; it returns a schema only when no
\* entry fails, and then with no error.
C19_FailureReturnsNil ==
    Returned =>
        LET order   == WalkOrder(call.tree)
            failing == {i \in 1..Len(order) : FailsAt(call.type, call.sourceDir, order[i])}
        IN  /\ ~(~call.out.isNil /\ call.err # NoError)
            /\ call.step = "failed" <=> failing # {}
            /\ call.step = "failed" =>
                  /\ call.out = NilSchema
                  /\ call.err # NoError
                  /\ call.todo # <<>>
                  /\ \E i \in failing :
                        /\ \A j \in failing : i <= j
                        /\ Head(call.todo) = order[i]
                        /\ Len(call.todo) = Len(order) - i + 1
            /\ call.step = "done" => (~call.out.isNil /\ call.err = NoError)

C19_Witness ==
    /\ Returned /\ call.step = "failed"
    /\ Len(call.files) >= 1
    /\ Len(call.todo) >= 2
    /\ call.out = NilSchema


\* the rule that an error of ValidateSchema reports, 0 for no error
RuleOf(message) ==
    IF message = NoError THEN 0
    ELSE IF message \in {"schema name is required", "schema type is required",
                         "schema version is required"} THEN 1
    ELSE IF message = "schema variables is required" \/ HasSuffix(message, " must have a type")
    THEN 2
    ELSE IF message = "schema must contain at least one file" THEN 3
    ELSE IF HasSuffix(message, " must have a path") \/ HasSuffix(message, " must have content")
    THEN 4
    ELSE 5

\* rule 4 and rule 5 for one FileSpec
PathAndContent(f) == f.Path # "" /\ f.Content # ""

HashMatches(f) ==
    \/ f.Hash = ""
    \/ LET d == DecompressContent(f.Content, f.Compressed)
       IN  /\ ~(f.Compressed /\ d.err)
           /\ f.Hash = CalculateContentHash(IF f.Compressed THEN d.out ELSE f.Content)

\* the rules that the schema sch violates
Violated(sch) ==
    {r \in 1..5 :
        CASE r = 1 -> sch.Name = "" \/ sch.Type = "" \/ sch.Version = ""
          [] r = 2 -> \/ sch.Variables.isNil
                      \/ \E n \in DOMAIN sch.Variables.m : sch.Variables.m[n].Type = ""
          [] r = 3 -> Len(sch.Files) = 0
          [] r = 4 -> \E i \in 1..Len(sch.Files) : ~PathAndContent(sch.Files[i])
          [] r = 5 -> \E i \in 1..Len(sch.Files) : ~HashMatches(sch.Files[i])}

\* C20 as stated: the error is that of the lowest-numbered violated rule,
\* so a rule-4 violation of any FileSpec is reported before a rule-5
\* violation of any other.
C20_RuleOrder ==
    (call.fn = "ValidateSchema" /\ call.done) =>
        RuleOf(call.out) = IF Violated(call.schema) = {} THEN 0
                           ELSE Min(Violated(call.schema))

\* C20: rules 1, 2, 3 are checked in that order for the schema; rules 4 and
\* 5 are then checked FileSpec by FileSpec in list order, rule 4 before rule
\* 5 within one FileSpec, so the error is that of the first FileSpec that
\* violates either of them.
C20_FileByFile ==
    (call.fn = "ValidateSchema" /\ call.done) =>
        LET sch == call.schema
            bad == {i \in 1..Len(sch.Files) :
                       ~PathAndContent(sch.Files[i]) \/ ~HashMatches(sch.Files[i])}
        IN  IF Violated(sch) \cap {1, 2, 3} # {}
            THEN RuleOf(call.out) = Min(Violated(sch) \cap {1, 2, 3})
            ELSE IF bad = {} THEN call.out = NoError
            ELSE LET f == sch.Files[Min(bad)]
                 IN  /\ RuleOf(call.out) = IF PathAndContent(f) THEN 5 ELSE 4
                     /\ f.Path # "" => HasPrefix(call.out, "file " \o f.Path \o " ")
                     /\ f.Path = "" => HasPrefix(call.out, "file " \o Itoa(Min(bad) - 1) \o " ")

C20_Witness ==
    /\ call.fn = "ValidateSchema" /\ call.done
    /\ Violated(call.schema) = {4, 5}
    /\ Len(call.schema.Files) >= 2
    /\ PathAndContent(call.schema.Files[1]) /\ ~HashMatches(call.schema.Files[1])
    /\ ~PathAndContent(call.schema.Files[2])
    /\ RuleOf(call.out) = 5


\* C21: content shorter than 1024 bytes is stored as it is; content of 1024
\* bytes or more is stored as base64(gzip(content)), flagged compressed,
\* exactly when that form is strictly shorter, and as it is otherwise; the
\* stored content is never longer than the original.
C21_CompressOnlyIfShorter ==
    (call.fn = "codec" /\ call.step # "input") =>
        /\ Len(call.content) < 1024 =>
              (call.stored = call.content /\ ~call.compressed)
        /\ Len(call.content) >= 1024 =>
              IF Len(GzipBase64(call.content)) < Len(call.content)
              THEN call.stored = GzipBase64(call.content) /\ call.compressed
              ELSE call.stored = call.content /\ ~call.compressed
        /\ Len(call.stored) <= Len(call.content)

\* content at or over the threshold whose compressed form is exactly as long
C21_Witness ==
    /\ call.fn = "codec" /\ call.step # "input"
    /\ Len(call.content) >= 1024
    /\ Len(GzipBase64(call.content)) = Len(call.content)
    /\ ~call.compressed


(***************************************************************************)
(* Extract on a tree that can be walked and read throughout, as one        *)
(* function of the template type, sourceDir and the tree; and the schema   *)
(* hashes of two such extractions side by side.                            *)
(***************************************************************************)
\* the entries for which the walk function appends a FileSpec, in walk order
Retained(type, sourceDir, tree) ==
    SelectSeq(WalkOrder(tree),
              LAMBDA e : ~e.dir /\ ~ShouldSkip(type, Join(sourceDir, e.path)))

ExtractOf(type, sourceDir, tree) ==
    LET kept == Retained(type, sourceDir, tree)
    IN  ExtractedSchema(type, tree,
            [i \in 1..Len(kept) |->
                ExtractFileOf(type, Rel(sourceDir, Join(sourceDir, kept[i].path)),
                              kept[i].content)])

\* files whose names and contents are short, one of them named after the
\* digest of another's content
HashPool ==
    {File("a", "x"), File("b", "y"), File("b", "z"), File("README.md", "# Frontend Template\n"),
     File("a" \o CalculateContentHash("x") \o "b", "y")}

HashTrees ==
    {t \in SUBSET HashPool :
        /\ Cardinality(t) <= MaxFiles
        /\ \A a, b \in t : a.path = b.path => a = b}

InitSchemaHash ==
    /\ GeneratorIdle
    /\ call \in {[fn |-> "calculateSchemaHash", done |-> FALSE,
                  one |-> ExtractOf(t1, "project", tree1),
                  two |-> ExtractOf(t2, "project", tree2),
                  hashes |-> <<"", "">>] :
                    t1 \in TemplateTypes, t2 \in TemplateTypes,
                    tree1 \in HashTrees, tree2 \in HashTrees}

CallCalculateSchemaHash ==
    /\ call.fn = "calculateSchemaHash" /\ ~call.done
    /\ call' = [call EXCEPT !.done = TRUE,
                            !.hashes = <<calculateSchemaHash(call.one),
                                         calculateSchemaHash(call.two)>>]
    /\ UNCHANGED generatorVars

NextSchemaHash == CallCalculateSchemaHash

SpecSchemaHash == InitSchemaHash /\ [][NextSchemaHash]_vars

\* C22: two extracted schemas have the same schema hash exactly when they
\* have the same name, type, version and sequence of (path, content hash)
\* pairs.
C22_SchemaHashInjective ==
    (call.fn = "calculateSchemaHash" /\ call.done) =>
        ((call.hashes[1] = call.hashes[2])
            <=> /\ call.one.Name = call.two.Name
                /\ call.one.Type = call.two.Type
                /\ call.one.Version = call.two.Version
                /\ PathsHashes(call.one) = PathsHashes(call.two))


\* the path under the output directory that FileSpec i is written to
DestPath(i) == Join(outputDir, schema.Files[i].Path)

\* the loop of Generate has returned the error of a FileSpec
ProcessingFailed == pc = "Failed" /\ HasPrefix(err, "failed to process file ")

\* the file at path p is as it was when this call of Generate began
Untouched(p) ==
    /\ p \in DOMAIN disk.files <=> p \in DOMAIN StartDisk.files
    /\ p \in DOMAIN disk.files => disk.files[p] = StartDisk.files[p]

PartialTree ==
    ProcessingFailed =>
        /\ next \in 1..Len(schema.Files)
        /\ HasPrefix(err, "failed to process file " \o schema.Files[next].Path \o ": ")
        /\ \A j \in 1..(next - 1) :
              /\ DestPath(j) \in DOMAIN disk.files
              /\ (\A k \in 1..next : k # j => DestPath(k) # DestPath(j))
                    => \E r \in Render(schema.Files[j], variables) :
                          r.err = NoError /\ disk.files[DestPath(j)] = r.out
        /\ \A j \in (next + 1)..Len(schema.Files) :
              (\A k \in 1..next : DestPath(k) # DestPath(j)) => Untouched(DestPath(j))

InSchemaOrder ==
    /\ pc = "Failed" => pc' = pc
    /\ pc = "Writing" =>
          /\ next' \in {next, next + 1}
          /\ next' = next <=> pc' = "Failed"
          /\ pc' = "Failed" => HasPrefix(err', "failed to process file ")
          /\ \A p \in DOMAIN disk'.files :
                (p \notin DOMAIN disk.files \/ disk'.files[p] # disk.files[p])
                    => p = DestPath(next)
          /\ DOMAIN disk.files \subseteq DOMAIN disk'.files

\* C23: Generate processes the FileSpecs one at a time in schema order; when
\* FileSpec i fails it returns that error, wrapped with the path of i, at
\* once: the FileSpecs before i are written and stay on disk, and no
\* FileSpec after i is processed or written.
C23_FirstErrorPartialTree ==
    /\ []PartialTree
    /\ [][InSchemaOrder]_vars

C23_Witness ==
    /\ ProcessingFailed
    /\ next = 2
    /\ Len(schema.Files) = 2
    /\ DestPath(1) # DestPath(2)
    /\ DestPath(1) \in DOMAIN disk.files
    /\ DestPath(2) \notin DOMAIN disk.files


(***************************************************************************)
(* ParseEnvExample called on its own.                                      *)
(***************************************************************************)
\* comment lines with and without text, variable lines with and without
\* white space, a second "=", an empty name, blank lines, a line with no "="
EnvLines ==
    {"# Database host", "#", "#  Port number ", "DB_HOST=localhost", " DB_PORT = 5432 ",
     "URL=a=b", "=v", "", "  ", "invalid line without equals"}

RECURSIVE LinesUpTo(_)
LinesUpTo(n) ==
    IF n = 0 THEN {""}
    ELSE LET shorter == LinesUpTo(n - 1)
         IN  shorter \cup {c \o l \o e : c \in shorter, l \in EnvLines, e \in {"\n"}}
                     \cup {c \o "KEY=1\r\n" : c \in shorter}

InitParseEnv ==
    /\ GeneratorIdle
    /\ call \in {[fn |-> "ParseEnvExample", content |-> c, done |-> FALSE, out |-> <<>>] :
                    c \in LinesUpTo(MaxLines)}

CallParseEnvExample ==
    /\ call.fn = "ParseEnvExample" /\ ~call.done
    /\ call' = [call EXCEPT !.done = TRUE, !.out = ParseEnvExample(call.content)]
    /\ UNCHANGED generatorVars

NextParseEnv == CallParseEnvExample

SpecParseEnv == InitParseEnv /\ [][NextParseEnv]_vars

\* the lines of the text, trimmed
Trimmed(content) ==
    LET lines == ScanLines(content)
    IN  [i \in 1..Len(lines) |-> TrimSpace(lines[i])]

IsComment(l) == HasPrefix(l, "#")

IsVariable(l) == l # "" /\ ~IsComment(l) /\ Contains(l, "=")

CommentText(l) == TrimSpace(From(l, 2))

\* the positions of the variable lines, in input order
RECURSIVE VariableLines(_, _)
VariableLines(T, i) ==
    IF i > Len(T) THEN <<>>
    ELSE (IF IsVariable(T[i]) THEN <<i>> ELSE <<>>) \o VariableLines(T, i + 1)

\* one variable per line with "=", in input order, with the trimmed name and
\* example; describe(T, i) is the description of the variable of line i
ParsedWith(describe(_, _)) ==
    LET T    == Trimmed(call.content)
        at   == VariableLines(T, 1)
    IN  /\ Len(call.out) = Len(at)
        /\ \A k \in 1..Len(at) :
              LET l  == T[at[k]]
                  eq == Index(l, "=")
              IN  /\ call.out[k].Name = TrimSpace(SubSeq(l, 1, eq - 1))
                  /\ call.out[k].Example = TrimSpace(From(l, eq + 1))
                  /\ call.out[k].Description = describe(T, at[k])

\* the text of the line just before line i when that line is a comment
PrecedingComment(T, i) ==
    IF i > 1 /\ IsComment(T[i - 1]) THEN CommentText(T[i - 1]) ELSE ""

\* the text of the last comment line with text since the last blank line or
\* variable line before line i
PendingComment(T, i) ==
    LET resets   == {j \in 1..(i - 1) : T[j] = "" \/ IsVariable(T[j])}
        since    == IF resets = {} THEN 0 ELSE CHOOSE j \in resets : \A r \in resets : r <= j
        comments == {j \in (since + 1)..(i - 1) : IsComment(T[j]) /\ CommentText(T[j]) # ""}
    IN  IF comments = {} THEN ""
        ELSE CommentText(T[CHOOSE j \in comments : \A c \in comments : c <= j])

\* C24 as stated: the description of a variable is the comment line
\* immediately preceding its line, and empty when no comment line does.
C24_PrecedingComment ==
    (call.fn = "ParseEnvExample" /\ call.done) => ParsedWith(PrecedingComment)

\* C24: one EnvVariable per non-comment line with "=", in input order, name
\* and example trimmed around the first "="; the description is the text of
\* the latest comment line with text since the last blank line or variable
\* line, so a line with no "=" or a bare "#" in between does not clear it.
C24_PendingComment ==
    (call.fn = "ParseEnvExample" /\ call.done) => ParsedWith(PendingComment)

C24_Witness ==
    /\ call.fn = "ParseEnvExample" /\ call.done
    /\ call.content = "# Database host\ninvalid line without equals\n DB_PORT = 5432 \n"
    /\ call.out = <<[Name |-> "DB_PORT", Description |-> "Database host", Example |-> "5432"]>>


\* C25: a schema that Extract returns with at least one FileSpec passes
\* ValidateSchema, whatever the retained files contain.
C25_ExtractedValidates ==
    (call.fn = "Extract" /\ call.step = "done" /\ Len(call.out.Files) >= 1) =>
        ValidateSchema(call.out) = {NoError}


\* C26: the paths and hashes of the FileSpecs that Extract returns are
\* those it returns for the same tree under any other source directory.
C26_SourceDirIndependent ==
    (call.fn = "Extract" /\ call.step = "done") =>
        \A dir \in SourceDirs :
            PathsHashes(call.out) = PathsHashes(ExtractOf(call.type, dir, call.tree))


\* the path p is the output directory or lies beneath it
Inside(p) ==
    LET root == Clean(outputDir)
    IN  p = root \/ HasPrefix(p, root \o "/")

\* C27: every file that Generate writes lies beneath the output directory,
\* and every directory it creates is the output directory, one of its
\* parents, or lies beneath it.
C27_WritesInsideOutputDir ==
    (pc \in {"Writing", "Done", "Failed"}) =>
        /\ \A p \in DOMAIN disk.files : Inside(p)
        /\ \A d \in disk.dirs : Inside(d) \/ d \in MkdirAllDirs(Clean(outputDir))


\* C28: a templated FileSpec without mappings whose content holds neither
\* "{{" nor "}}" is rendered without error and written as its content,
\* byte for byte, also when the content holds the text of a placeholder
\* token or of an escape sentinel.
C28_BraceFreeVerbatim ==
    \A i \in 1..Len(schema.Files) :
        LET f == schema.Files[i]
        IN  (f.Template /\ f.Mappings = <<>>
               /\ ~Contains(Stored(f), "{{") /\ ~Contains(Stored(f), "}}")) =>
               /\ ~RenderFailedAt(i)
               /\ JustWritten(i) => Written(i) = Stored(f)


\* C29: what is written for a templated FileSpec is the one outcome its
\* rendering has: no order of iteration over the table of known expressions
\* gives other bytes or an error.
C29_RenderDeterministic ==
    \A i \in 1..Len(schema.Files) :
        (JustWritten(i) /\ schema.Files[i].Template) =>
            \A r \in Render(schema.Files[i], variables) :
                r.err = NoError /\ r.out = Written(i)


(***************************************************************************)
(* sdk/client.go: the registry of template schemas of a Client.  call      *)
(* holds Client.templates (a function from names to schemas), the number   *)
(* of registrations called so far, and the last call: its method, its      *)
(* file, the error it returned and the registry it started from.           *)
(***************************************************************************)
\* the files that calls name: absent, unreadable, not JSON, or holding the
\* JSON text of a schema
Absent == [state |-> "absent", schema |-> NoSchema]

SchemaFile(sch) == [state |-> "schema", schema |-> sch]

Named(name, version, content) ==
    [Name |-> name, Type |-> "frontend", Version |-> version, Variables |-> StdVariables,
     Files |-> <<ExtractFile("README.md", content, TRUE, <<>>)>>]

SchemaFiles ==
    [n \in {"missing.json", "locked.json", "broken.json", "test.json", "test-v2.json",
            "api.json", "api-v2.json", "octets.json", "unnamed.json", "no-files.json",
            "stale.json"} |->
        CASE n = "missing.json"  -> Absent
          [] n = "locked.json"   -> [state |-> "unreadable", schema |-> NoSchema]
          [] n = "broken.json"   -> [state |-> "malformed", schema |-> NoSchema]
          [] n = "test.json"     -> SchemaFile(Named("test-template", "1.0.0", ReadmeContent))
          [] n = "test-v2.json"  -> SchemaFile(Named("test-template", "2.0.0", "# v2"))
          [] n = "api.json"      -> SchemaFile(Named("api-template", "1.0.0", ReadmeContent))
          [] n = "api-v2.json"   -> SchemaFile(Named("api-template", "2.0.0", "# v2"))
          [] n = "octets.json"   -> SchemaFile(Named("tpl-ÿ", "1.0.0", ReadmeContent))
          [] n = "unnamed.json"  -> SchemaFile(Named("", "1.0.0", ReadmeContent))
          [] n = "no-files.json" ->
               SchemaFile([Named("empty-template", "1.0.0", "") EXCEPT !.Files = <<>>])
          [] n = "stale.json"    ->
               SchemaFile([Named("stale-template", "1.0.0", ReadmeContent)
                              EXCEPT !.Files[1].Content = "# edited"])]

\* c.templates[name] = schema
Store(templates, name, sch) ==
    [n \in (DOMAIN templates) \cup {name} |-> IF n = name THEN sch ELSE templates[n]]

\* New()
InitRegistry ==
    /\ GeneratorIdle
    /\ call = [fn |-> "Client", templates |-> <<>>, calls |-> 0,
               last |-> [method |-> "New", path |-> "", err |-> NoError, before |-> <<>>]]

\* what RegisterTemplate(templatePath) returns and the registry it leaves
RegisterTemplateStoreFirst(templates, templatePath) ==
    LET file   == IF templatePath \in DOMAIN SchemaFiles THEN SchemaFiles[templatePath] ELSE Absent
        parsed == JSONRoundTrip(file.schema)
    IN  IF file.state = "absent"
        THEN {[err |-> "template file does not exist", templates |-> templates]}
        ELSE IF file.state = "unreadable"
        THEN {[err |-> "failed to read template file", templates |-> templates]}
        ELSE IF file.state = "malformed"
        THEN {[err |-> "failed to parse template file", templates |-> templates]}
        ELSE {[err       |-> IF e = NoError THEN NoError ELSE "invalid template schema: " \o e,
               templates |-> Store(templates, parsed.Name, parsed)] :
                 e \in ValidateSchema(parsed)}

RegisterTemplateResult(templates, templatePath) ==
    LET file   == IF templatePath \in DOMAIN SchemaFiles THEN SchemaFiles[templatePath] ELSE Absent
        parsed == JSONRoundTrip(file.schema)
    IN  IF file.state = "absent"
        THEN {[err |-> "template file does not exist", templates |-> templates]}
        ELSE IF file.state = "unreadable"
        THEN {[err |-> "failed to read template file", templates |-> templates]}
        ELSE IF file.state = "malformed"
        THEN {[err |-> "failed to parse template file", templates |-> templates]}
        ELSE {IF e # NoError
              THEN [err |-> "invalid template schema: " \o e, templates |-> templates]
              ELSE [err |-> NoError, templates |-> Store(templates, parsed.Name, parsed)] :
                 e \in ValidateSchema(parsed)}

Registration(method) ==
    /\ call.fn = "Client"
    /\ call.calls < MaxCalls
    /\ \E path \in DOMAIN SchemaFiles :
          \E r \in RegisterTemplateResult(call.templates, path) :
             call' = [call EXCEPT !.templates = r.templates,
                                  !.calls = @ + 1,
                                  !.last = [method |-> method, path |-> path, err |-> r.err,
                                            before |-> call.templates]]
    /\ UNCHANGED generatorVars

RegisterTemplate == Registration("RegisterTemplate")

\* RegisterSchema delegates to RegisterTemplate
RegisterSchema == Registration("RegisterSchema")

NextRegistry == RegisterTemplate \/ RegisterSchema

SpecRegistry == InitRegistry /\ [][NextRegistry]_vars

\* C30: every schema in the registry passes ValidateSchema and is stored
\* under its own Name; a call that returned an error left the registry as
\* it was; a call that returned nil stored the schema of its file under that
\* schema's name, in place of an earlier one of that name if there was one,
\* and changed no other entry.
C30_RegistryValid ==
    (call.fn = "Client") =>
        LET t      == call.templates
            before == call.last.before
            file   == SchemaFiles[call.last.path]
        IN  /\ \A n \in DOMAIN t : t[n].Name = n /\ ValidateSchema(t[n]) = {NoError}
            /\ (call.calls > 0 /\ call.last.err # NoError) => t = before
            /\ (call.calls > 0 /\ call.last.err = NoError) =>
                  /\ file.state = "schema"
                  /\ LET name == JSONRoundTrip(file.schema).Name
                     IN  /\ DOMAIN t = (DOMAIN before) \cup {name}
                         /\ t[name] = JSONRoundTrip(file.schema)
                         /\ \A n \in (DOMAIN before) \ {name} : t[n] = before[n]
            /\ (call.calls > 0 /\ file.state # "schema") => call.last.err # NoError
            /\ (call.calls > 0 /\ file.state = "schema"
                  /\ ValidateSchema(JSONRoundTrip(file.schema)) # {NoError})
                    => call.last.err # NoError

\* the second version of test-template took the place of the first, next to
\* another entry that the call left alone
C30_Witness ==
    /\ call.fn = "Client" /\ call.calls = 3
    /\ DOMAIN call.templates = {"test-template", "api-template"}
    /\ call.templates["test-template"].Version = "2.0.0"
    /\ call.templates["api-template"].Version = "1.0.0"
    /\ call.last.path = "test-v2.json"
    /\ call.last.err = NoError
    /\ "test-template" \in DOMAIN call.last.before
    /\ call.last.before["test-template"].Version = "1.0.0"
====
